---- MODULE Spec2Model ----
(***************************************************************************)
(* A model of the gf2 crate: bit-vectors packed into unsigned words,       *)
(* bit-slices, bit-matrices, bit-polynomials and the shared generator.     *)
(* Words are modelled at the narrowest width the crate instantiates (u8);  *)
(* a word is a natural number below 2^W and every word operation is        *)
(* computed on that number as the code computes it on the machine word.    *)
(***************************************************************************)
EXTENDS Integers, Sequences, FiniteSets, TLC

\* Word::BITS of the u8 instantiation of the Unsigned trait.
W == 8

\* Word::MAX
MAXW == 2^W - 1

\* Largest bit-vector length explored by the bit-vector machine.
MaxLen == 10

(***************************************************************************)
(* Word arithmetic (src/unsigned.rs and the primitive integer operators).  *)
(***************************************************************************)
RECURSIVE BitAnd(_, _)
BitAnd(a, b) ==
    IF a = 0 \/ b = 0 THEN 0
    ELSE (a % 2) * (b % 2) + 2 * BitAnd(a \div 2, b \div 2)

BitOr(a, b) == a + b - BitAnd(a, b)

BitXor(a, b) == a + b - 2 * BitAnd(a, b)

BitNot(a) == MAXW - a

\* unbounded_shl / unbounded_shr: a shift by the width or more gives zero.
unbounded_shl(a, k) == IF k >= W THEN 0 ELSE (a * 2^k) % 2^W

unbounded_shr(a, k) == IF k >= W THEN 0 ELSE a \div 2^k

\* Bit i of the word a.
BitOf(a, i) == (a \div 2^i) % 2

RECURSIVE count_ones(_)
count_ones(a) == IF a = 0 THEN 0 ELSE (a % 2) + count_ones(a \div 2)

RECURSIVE word_trailing_zeros(_)
word_trailing_zeros(a) ==
    IF a = 0 THEN W
    ELSE IF a % 2 = 1 THEN 0 ELSE 1 + word_trailing_zeros(a \div 2)

RECURSIVE BitLength(_)
BitLength(a) == IF a = 0 THEN 0 ELSE 1 + BitLength(a \div 2)

word_leading_zeros(a) == W - BitLength(a)

div_ceil(a, b) == (a + b - 1) \div b

words_needed(n_bits) == div_ceil(n_bits, W)

word_index(i) == i \div W

bit_offset(i) == i % W

\* The mask of index_and_mask.
bit_mask(i) == 2^(bit_offset(i))

\* lowest_set_bit / highest_set_bit: -1 stands for None.
lowest_set_bit(a) == IF a = 0 THEN -1 ELSE word_trailing_zeros(a)

highest_set_bit(a) == IF a = 0 THEN -1 ELSE W - 1 - word_leading_zeros(a)

\* with_set_bits over the half-open range start..end.
with_set_bits(start, end) ==
    BitAnd(unbounded_shl(MAXW, start), unbounded_shr(MAXW, W - end))

\* replace_bits over the half-open range start..end.
replace_bits(self, start, end, with) ==
    LET mask == with_set_bits(start, end)
    IN  BitOr(BitAnd(self, BitNot(mask)), BitAnd(with, mask))

\* One round of the riffle loop for both halves.
RECURSIVE riffle_loop(_, _)
riffle_loop(x, i) ==
    IF i = 0 THEN x
    ELSE LET div  == BitOr(unbounded_shl(1, i), 1)
             mask == MAXW \div div
         IN  riffle_loop(BitAnd(BitXor(x, unbounded_shl(x, i)), mask), i \div 2)

\* riffle: the pair <<lo, hi>> of the word interleaved with zeros.
riffle(self) ==
    LET half_bits == W \div 2
        lo == BitAnd(self, unbounded_shr(MAXW, half_bits))
        hi == unbounded_shr(self, half_bits)
    IN  <<riffle_loop(lo, W \div 4), riffle_loop(hi, W \div 4)>>

(***************************************************************************)
(* Sequence helpers: Rust indexes from 0.                                  *)
(***************************************************************************)
At(s, i) == s[i + 1]

\* The function f on 1..n as a sequence.
AsSeq(f, n) == SubSeq(f, 1, n)

Put(s, i, x) == [s EXCEPT ![i + 1] = x]

Min(a, b) == IF a < b THEN a ELSE b

Max(a, b) == IF a > b THEN a ELSE b

(***************************************************************************)
(* Bit-stores.  A BitVec is the record [m_len, m_store]; a BitSlice over   *)
(* a vector's words is [m_store, m_ptr, m_offset, m_len, m_words] where    *)
(* m_store holds the viewed words and m_ptr is the index of the word the   *)
(* slice's pointer addresses.  Operations return the updated store.        *)
(***************************************************************************)
IsSlice(s) == "m_offset" \in DOMAIN s

len(s) == s.m_len

is_empty(s) == len(s) = 0

\* BitVec::words / BitSlice::words
words(s) == IF IsSlice(s) THEN s.m_words ELSE Len(s.m_store)

\* BitVec::word
vec_word(self, i) == At(self.m_store, i)

\* BitVec::set_word
vec_set_word(self, i, word) ==
    IF i < words(self) - 1
    THEN [self EXCEPT !.m_store = Put(self.m_store, i, word)]
    ELSE LET last_bit    == self.m_len - 1
             last_offset == last_bit % W
         IN  [self EXCEPT !.m_store =
                 Put(self.m_store, i,
                     replace_bits(At(self.m_store, i), 0, last_offset + 1, word))]

\* BitSlice::recipe_for_word: the pair <<u0_bits, u1_bits>>.
recipe_for_word(self, i) ==
    IF i = self.m_words - 1
    THEN LET last        == self.m_offset + self.m_len - 1
             last_offset == last % W
         IN  IF last_offset < self.m_offset
             THEN <<W - self.m_offset, last_offset + 1>>
             ELSE <<last_offset - self.m_offset + 1, 0>>
    ELSE <<W - self.m_offset, self.m_offset>>

\* BitSlice::word
slice_word(self, i) ==
    LET r       == recipe_for_word(self, i)
        u0_bits == r[1]
        u1_bits == r[2]
        u0      == At(self.m_store, self.m_ptr + i)
        res0    == replace_bits(0, 0, u0_bits, unbounded_shr(u0, self.m_offset))
    IN  IF u1_bits # 0
        THEN replace_bits(res0, u0_bits, u0_bits + u1_bits,
                          unbounded_shl(At(self.m_store, self.m_ptr + i + 1), u0_bits))
        ELSE res0

\* set_word that stores the whole shifted value into the first underlying word.
slice_set_word_spilling(self, i, value) ==
    [self EXCEPT !.m_store =
        Put(self.m_store, self.m_ptr + i, unbounded_shl(value, self.m_offset))]

\* BitSlice::set_word
slice_set_word(self, i, value) ==
    LET r       == recipe_for_word(self, i)
        u0_bits == r[1]
        u1_bits == r[2]
        shift   == self.m_offset
        u0      == replace_bits(At(self.m_store, self.m_ptr + i), shift, shift + u0_bits,
                                unbounded_shl(value, shift))
        st0     == Put(self.m_store, self.m_ptr + i, u0)
    IN  IF u1_bits # 0
        THEN [self EXCEPT !.m_store =
                 Put(st0, self.m_ptr + i + 1,
                     replace_bits(At(st0, self.m_ptr + i + 1), 0, u1_bits,
                                  unbounded_shr(value, u0_bits)))]
        ELSE [self EXCEPT !.m_store = st0]

word(s, i) == IF IsSlice(s) THEN slice_word(s, i) ELSE vec_word(s, i)

set_word(s, i, w) == IF IsSlice(s) THEN slice_set_word(s, i, w) ELSE vec_set_word(s, i, w)

\* start_and_end_for: the range start..end is accepted (no assertion fails).
range_ok(self, start, end) == ~is_empty(self) /\ start < end /\ end <= len(self)

\* BitSlice::new / new_mut over the words of a bit-vector.
slice(self, start, end) ==
    [m_store  |-> self.m_store,
     m_ptr    |-> word_index(start),
     m_offset |-> bit_offset(start),
     m_len    |-> end - start,
     m_words  |-> words_needed(end - start)]

\* The vector once a mutable slice over its words has been released.
unslice(self, sl) == [self EXCEPT !.m_store = sl.m_store]

get(self, i) == BitAnd(word(self, word_index(i)), bit_mask(i)) # 0

set(self, i, val) ==
    LET w == word(self, word_index(i))
        current_value == BitAnd(w, bit_mask(i)) # 0
    IN  IF current_value # val
        THEN set_word(self, word_index(i), BitXor(w, bit_mask(i)))
        ELSE self

flip(self, i) ==
    set_word(self, word_index(i), BitXor(word(self, word_index(i)), bit_mask(i)))

swap(self, i0, i1) ==
    IF i0 = i1 THEN self
    ELSE LET word0 == word_index(i0)
             word1 == word_index(i1)
             mask0 == bit_mask(i0)
             mask1 == bit_mask(i1)
             val0  == BitAnd(word(self, word0), mask0) # 0
             val1  == BitAnd(word(self, word1), mask1) # 0
         IN  IF val0 = val1 THEN self
             ELSE IF word0 = word1
                  THEN set_word(self, word0, BitXor(BitXor(word(self, word0), mask0), mask1))
                  ELSE LET s1 == set_word(self, word0, BitXor(word(self, word0), mask0))
                       IN  set_word(s1, word1, BitXor(word(s1, word1), mask1))

any(self) == \E i \in 0..(words(self) - 1) : word(self, i) # 0

none(self) == ~any(self)

set_all(self, v) ==
    LET value == IF v THEN MAXW ELSE 0
        RECURSIVE loop(_, _)
        loop(s, i) == IF i >= words(s) THEN s ELSE loop(set_word(s, i, value), i + 1)
    IN  loop(self, 0)

flip_all(self) ==
    LET RECURSIVE loop(_, _)
        loop(s, i) == IF i >= words(s) THEN s
                      ELSE loop(set_word(s, i, BitNot(word(s, i))), i + 1)
    IN  loop(self, 0)

\* copy_unsigned from a source of src_bits bits holding the number src.
copy_unsigned(self, src, src_bits) ==
    IF src <= MAXW
    THEN set_word(self, 0, src)
    ELSE LET num_words == src_bits \div W
             RECURSIVE loop(_, _, _)
             loop(s, x, k) == IF k >= num_words THEN s
                              ELSE loop(set_word(s, k, x % 2^W), x \div 2^W, k + 1)
         IN  loop(self, src, 0)

\* copy_store between stores of the same word type.
copy_store(self, src) ==
    IF is_empty(self) THEN self
    ELSE LET RECURSIVE loop(_, _)
             loop(s, i) == IF i >= words(s) THEN s
                           ELSE loop(set_word(s, i, word(src, i)), i + 1)
         IN  loop(self, 0)

store_count_ones(self) ==
    LET RECURSIVE loop(_, _)
        loop(i, count) == IF i >= words(self) THEN count
                          ELSE loop(i + 1, count + count_ones(word(self, i)))
    IN  loop(0, 0)

\* first_set / last_set: -1 stands for None.
first_set(self) ==
    LET RECURSIVE loop(_)
        loop(i) == IF i >= words(self) THEN -1
                   ELSE IF lowest_set_bit(word(self, i)) # -1
                        THEN i * W + lowest_set_bit(word(self, i))
                        ELSE loop(i + 1)
    IN  loop(0)

last_set(self) ==
    LET RECURSIVE loop(_)
        loop(i) == IF i < 0 THEN -1
                   ELSE IF highest_set_bit(word(self, i)) # -1
                        THEN i * W + highest_set_bit(word(self, i))
                        ELSE loop(i - 1)
    IN  loop(words(self) - 1)

(***************************************************************************)
(* BitVec (src/vec.rs).                                                    *)
(***************************************************************************)
RECURSIVE Repeat(_, _)
Repeat(x, n) == IF n <= 0 THEN <<>> ELSE Append(Repeat(x, n - 1), x)

\* Vec::resize of the word store: truncate, or extend with the fill word.
store_resize(st, n, fill) ==
    IF n <= Len(st) THEN SubSeq(st, 1, n) ELSE st \o Repeat(fill, n - Len(st))

new == [m_len |-> 0, m_store |-> <<>>]

\* clean without the masking of the last word.
clean_unmasked(self) == self

clean(self) ==
    LET shift == self.m_len % W
    IN  IF shift # 0
        THEN LET mask == BitNot(unbounded_shl(MAXW, shift))
                 k    == word_index(self.m_len - 1)
             IN  [self EXCEPT !.m_store = Put(self.m_store, k, BitAnd(At(self.m_store, k), mask))]
        ELSE self

from_word(w, n) == clean([m_len |-> n, m_store |-> Repeat(w, words_needed(n))])

zeros(n) == [m_len |-> n, m_store |-> Repeat(0, words_needed(n))]

ones(n) == clean([m_len |-> n, m_store |-> Repeat(MAXW, words_needed(n))])

constant(val, n) ==
    clean([m_len |-> n, m_store |-> Repeat(IF val THEN MAXW ELSE 0, words_needed(n))])

unit(i, n) == set(zeros(n), i, TRUE)

\* Word::ALTERNATING
ALTERNATING == MAXW \div 3

alternating(n) == clean([m_len |-> n, m_store |-> Repeat(ALTERNATING, words_needed(n))])

from_unsigned(src, src_bits) == copy_unsigned(zeros(src_bits), src, src_bits)

from_store(src) == copy_store(zeros(len(src)), src)

clear(self) == [m_len |-> 0, m_store |-> <<>>]

resize(self, new_len) ==
    IF new_len # self.m_len
    THEN LET old_len == self.m_len
             r == [m_len |-> new_len,
                   m_store |-> store_resize(self.m_store, words_needed(new_len), 0)]
         IN  IF new_len < old_len THEN clean(r) ELSE r
    ELSE self

push(self, val) ==
    LET r == resize(self, len(self) + 1)
    IN  IF val THEN set(r, len(r) - 1, TRUE) ELSE r

\* pop on a non-empty vector: the vector afterwards (the popped bit is get(self, len - 1)).
pop(self) == IF is_empty(self) THEN self ELSE resize(self, len(self) - 1)

append_unsigned(self, src, src_bits) ==
    LET old_len == len(self)
        r       == resize(self, old_len + src_bits)
    IN  unslice(r, copy_unsigned(slice(r, old_len, len(r)), src, src_bits))

\* append_store panics (the slice range is empty) unless this holds.
append_store_ok(self, src) == len(src) > 0

append_store(self, src) ==
    LET old_len == len(self)
        r       == resize(self, old_len + len(src))
    IN  unslice(r, copy_store(slice(r, old_len, len(r)), src))

\* split_off_into panics unless this holds.
split_off_ok(self, at) == at <= len(self) /\ range_ok(self, at, len(self))

\* split_off_into: the pair <<self afterwards, dst>>.
split_off_into(self, at) ==
    LET dst == append_store(clear(new), slice(self, at, len(self)))
    IN  <<resize(self, at), dst>>

\* split_off_word on a non-empty vector: the pair <<self afterwards, word>>.
split_off_word(self) ==
    LET n_words == words(self)
    IN  IF n_words = 1
        THEN <<clear(self), At(self.m_store, 0)>>
        ELSE LET shift  == self.m_len % W
                 result == IF shift = 0
                           THEN At(self.m_store, n_words - 1)
                           ELSE BitOr(unbounded_shr(At(self.m_store, n_words - 2), shift),
                                      unbounded_shl(At(self.m_store, n_words - 1), W - shift))
             IN  <<resize(self, self.m_len - W), result>>

(***************************************************************************)
(* Whole-store operations (src/store.rs).                                  *)
(***************************************************************************)
\* left_shift that only clears the store when everything is shifted out.
left_shift_whole(self, shift0) ==
    IF shift0 >= len(self) /\ shift0 # 0 THEN set_all(self, FALSE) ELSE self

left_shift(self, shift0) ==
    IF shift0 = 0 \/ len(self) = 0 THEN self
    ELSE IF shift0 >= len(self) THEN set_all(self, FALSE)
    ELSE
      LET word_shift == shift0 \div W
          end_word   == words(self) - word_shift
          RECURSIVE move(_, _)
          move(s, i) == IF i >= end_word THEN s
                        ELSE move(set_word(s, i, word(s, i + word_shift)), i + 1)
          RECURSIVE fill(_, _)
          fill(s, i) == IF i >= words(s) THEN s ELSE fill(set_word(s, i, 0), i + 1)
          s1    == IF word_shift > 0 THEN fill(move(self, 0), end_word) ELSE self
          shift == IF word_shift > 0 THEN shift0 - word_shift * W ELSE shift0
          shift_complement == W - shift
          RECURSIVE interior(_, _)
          interior(s, i) ==
              IF i >= end_word - 1 THEN s
              ELSE LET lo == unbounded_shr(word(s, i), shift)
                       hi == unbounded_shl(word(s, i + 1), shift_complement)
                   IN  interior(set_word(s, i, BitOr(lo, hi)), i + 1)
      IN  IF shift # 0
          THEN LET s2 == IF end_word > 0 THEN interior(s1, 0) ELSE s1
               IN  set_word(s2, end_word - 1, unbounded_shr(word(s2, end_word - 1), shift))
          ELSE s1

right_shift(self, shift0) ==
    IF shift0 = 0 \/ len(self) = 0 THEN self
    ELSE IF shift0 >= len(self) THEN set_all(self, FALSE)
    ELSE
      LET word_shift == shift0 \div W
          RECURSIVE move(_, _)
          move(s, i) == IF i < word_shift THEN s
                        ELSE move(set_word(s, i, word(s, i - word_shift)), i - 1)
          RECURSIVE fill(_, _)
          fill(s, i) == IF i >= word_shift THEN s ELSE fill(set_word(s, i, 0), i + 1)
          s1    == IF word_shift > 0 THEN fill(move(self, words(self) - 1), 0) ELSE self
          shift == IF word_shift > 0 THEN shift0 - word_shift * W ELSE shift0
          shift_complement == W - shift
          RECURSIVE interior(_, _)
          interior(s, i) ==
              IF i < word_shift + 1 THEN s
              ELSE LET lo == unbounded_shr(word(s, i - 1), shift_complement)
                       hi == unbounded_shl(word(s, i), shift)
                   IN  interior(set_word(s, i, BitOr(lo, hi)), i - 1)
      IN  IF shift # 0
          THEN LET s2 == interior(s1, words(s1) - 1)
               IN  set_word(s2, word_shift, unbounded_shl(word(s2, word_shift), shift))
          ELSE s1

xor_eq(self, rhs) ==
    LET RECURSIVE loop(_, _)
        loop(s, i) == IF i >= words(s) THEN s
                      ELSE loop(set_word(s, i, BitXor(word(s, i), word(rhs, i))), i + 1)
    IN  loop(self, 0)

and_eq(self, rhs) ==
    LET RECURSIVE loop(_, _)
        loop(s, i) == IF i >= words(s) THEN s
                      ELSE loop(set_word(s, i, BitAnd(word(s, i), word(rhs, i))), i + 1)
    IN  loop(self, 0)

or_eq(self, rhs) ==
    LET RECURSIVE loop(_, _)
        loop(s, i) == IF i >= words(s) THEN s
                      ELSE loop(set_word(s, i, BitOr(word(s, i), word(rhs, i))), i + 1)
    IN  loop(self, 0)

\* riffled_into: the destination vector afterwards.
riffled_into(self, dst) ==
    LET ln == len(self)
    IN  IF ln < 2 THEN copy_store(resize(dst, ln), self)
        ELSE LET d0        == resize(dst, 2 * ln)
                 dst_words == words(d0)
                 RECURSIVE loop(_, _)
                 loop(d, i) ==
                     IF i >= words(self) THEN d
                     ELSE LET r  == riffle(word(self, i))
                              d1 == set_word(d, 2 * i, r[1])
                          IN  loop(IF 2 * i + 1 < dst_words
                                   THEN set_word(d1, 2 * i + 1, r[2]) ELSE d1, i + 1)
             IN  pop(loop(d0, 0))

riffled(self) == riffled_into(self, new)

\* split_at_into panics unless this holds.
split_at_ok(self, at) ==
    at <= len(self) /\ range_ok(self, 0, at) /\ range_ok(self, at, len(self))

\* split_at_into: the pair <<left, right>>.
split_at_into(self, at) ==
    <<append_store(clear(new), slice(self, 0, at)),
      append_store(clear(new), slice(self, at, len(self)))>>

dot(self, rhs) ==
    LET RECURSIVE loop(_, _)
        loop(i, sum) == IF i >= words(self) THEN sum
                        ELSE loop(i + 1, BitXor(sum, BitAnd(word(self, i), word(rhs, i))))
    IN  count_ones(loop(0, 0)) % 2 = 1

\* convolved_with without the shifts and additions.
convolved_with_unset(self, rhs) ==
    IF is_empty(self) \/ is_empty(rhs) THEN new ELSE zeros(len(self) + len(rhs) - 1)

convolved_with(self, rhs) ==
    IF is_empty(self) \/ is_empty(rhs) THEN new
    ELSE
      LET result0 == zeros(len(self) + len(rhs) - 1)
      IN  IF none(self) \/ first_set(rhs) = -1 THEN result0
          ELSE
            LET rhs_words_end == word_index(last_set(rhs)) + 1
                RECURSIVE init(_, _)
                init(r, i) == IF i >= rhs_words_end THEN r
                              ELSE init(set_word(r, i, word(rhs, i)), i + 1)
                RECURSIVE shl1(_, _, _)
                shl1(r, j, prev) ==
                    IF j >= words(r) THEN r
                    ELSE LET left == unbounded_shr(prev, W - 1)
                             cur  == word(r, j)
                         IN  shl1(set_word(r, j, BitOr(unbounded_shl(cur, 1), left)), j + 1, cur)
                RECURSIVE add(_, _)
                add(r, j) == IF j >= rhs_words_end THEN r
                             ELSE add(set_word(r, j, BitXor(word(r, j), word(rhs, j))), j + 1)
                shift_add(r1, i) == IF get(self, i) THEN add(r1, 0) ELSE r1
                \* The loop over the bits of self, on the pair <<result, i>>.
                RECURSIVE outer(_)
                outer(st) ==
                    IF st[2] < 0 THEN st[1]
                    ELSE outer(<<shift_add(shl1(st[1], 0, 0), st[2]), st[2] - 1>>)
            IN  outer(<<init(result0, 0), last_set(self) - 1>>)

\* fill_random_biased_seeded as far as the store goes: p_class says whether
\* p <= 0 ("zero"), p >= 1 ("one") or in between ("mid"), and below[i + 1]
\* is the outcome of the i-th test rng::u64() < scaled_p.
fill_random_biased(self, p_class, below) ==
    IF p_class = "zero" THEN set_all(self, FALSE)
    ELSE IF p_class = "one" THEN set_all(self, TRUE)
    ELSE LET RECURSIVE loop(_, _)
             loop(s, i) == IF i >= len(s) THEN s
                           ELSE loop(IF below[i + 1] THEN set(s, i, TRUE) ELSE s, i + 1)
         IN  loop(set_all(self, FALSE), 0)

(***************************************************************************)
(* BitMatrix (src/matrix.rs): the sequence m_rows of bit-vectors.          *)
(***************************************************************************)
rows(M) == Len(M)

cols(M) == IF Len(M) = 0 THEN 0 ELSE len(M[1])

mat_zeros(r, c) == Repeat(zeros(c), r)

is_square(M) == Len(M) # 0 /\ rows(M) = cols(M)

mat_get(M, r, c) == get(M[r + 1], c)

mat_set(M, r, c, val) == [M EXCEPT ![r + 1] = set(@, c, val)]

mat_flip(M, r, c) == [M EXCEPT ![r + 1] = flip(@, c)]

\* identity without its diagonal.
identity_unset(n) == mat_zeros(n, n)

identity(n) ==
    LET RECURSIVE loop(_, _)
        loop(M, i) == IF i >= n THEN M ELSE loop(mat_set(M, i, i, TRUE), i + 1)
    IN  loop(mat_zeros(n, n), 0)

is_identity(M) ==
    /\ is_square(M)
    /\ \A i \in 0..(rows(M) - 1) : ~any(flip(M[i + 1], i))

col(M, c) ==
    LET RECURSIVE loop(_, _)
        loop(result, r) ==
            IF r >= rows(M) THEN result
            ELSE loop(IF mat_get(M, r, c) THEN set(result, r, TRUE) ELSE result, r + 1)
    IN  loop(zeros(rows(M)), 0)

set_diagonal(M, val) ==
    LET RECURSIVE loop(_, _)
        loop(X, i) == IF i >= rows(X) THEN X ELSE loop(mat_set(X, i, i, val), i + 1)
    IN  loop(M, 0)

append_col(M, c) == AsSeq([i \in 1..Len(M) |-> push(M[i], get(c, i - 1))], Len(M))

\* remove_col on a non-empty matrix: the pair <<matrix afterwards, column removed>>.
remove_col(M) == <<AsSeq([i \in 1..Len(M) |-> pop(M[i])], Len(M)), col(M, cols(M) - 1)>>

append_cols(M, src) == AsSeq([i \in 1..Len(M) |-> append_store(M[i], src[i])], Len(M))

swap_rows(M, i0, i1) == [M EXCEPT ![i0 + 1] = M[i1 + 1], ![i1 + 1] = M[i0 + 1]]

swap_cols(M, j0, j1) == AsSeq([i \in 1..Len(M) |-> swap(M[i], j0, j1)], Len(M))

add_identity(M) ==
    LET RECURSIVE loop(_, _)
        loop(X, i) == IF i >= rows(X) THEN X ELSE loop(mat_flip(X, i, i), i + 1)
    IN  loop(M, 0)

\* sub_matrix over rows r_start..r_end and columns c_start..c_end.
sub_matrix(M, r_start, r_end, c_start, c_end) ==
    LET r == r_end - r_start
        c == c_end - c_start
    IN  AsSeq([i \in 1..r |-> copy_store(zeros(c), slice(M[i + r_start], c_start, c_end))], r)

lower(M) ==
    IF Len(M) = 0 THEN <<>>
    ELSE AsSeq([k \in 1..Len(M) |->
                  LET first == k
                      c     == cols(M)
                  IN  IF first < c
                      THEN unslice(M[k], set_all(slice(M[k], first, c), FALSE))
                      ELSE M[k]], Len(M))

upper(M) ==
    IF Len(M) = 0 THEN <<>>
    ELSE AsSeq([k \in 1..Len(M) |->
                  LET n == Min(k - 1, cols(M))
                  IN  IF n > 0
                      THEN unslice(M[k], set_all(slice(M[k], 0, n), FALSE))
                      ELSE M[k]], Len(M))

unit_lower(M) == set_diagonal(lower(M), TRUE)

\* BitMatrix::dot with a bit-vector.
mat_dot(M, rhs) ==
    LET RECURSIVE loop(_, _)
        loop(result, i) ==
            IF i >= rows(M) THEN result
            ELSE loop(IF dot(M[i + 1], rhs) THEN set(result, i, TRUE) ELSE result, i + 1)
    IN  loop(zeros(rows(M)), 0)

dot_matrix(M, rhs) ==
    LET r == rows(M)
        c == cols(rhs)
        RECURSIVE inner(_, _, _, _)
        inner(result, rhs_col, j, i) ==
            IF i >= r THEN result
            ELSE inner(IF dot(M[i + 1], rhs_col) THEN mat_set(result, i, j, TRUE) ELSE result,
                       rhs_col, j, i + 1)
        RECURSIVE outer(_, _)
        outer(result, j) ==
            IF j >= c THEN result ELSE outer(inner(result, col(rhs, j), j, 0), j + 1)
    IN  outer(mat_zeros(r, c), 0)

(***************************************************************************)
(* Echelon forms and the inverse (src/matrix.rs).                          *)
(***************************************************************************)
\* The first row at or after p whose column j is set (rows(M) if none).
find_pivot(M, p, j) ==
    LET RECURSIVE loop(_)
        loop(q) == IF q < rows(M) /\ ~mat_get(M, q, j) THEN loop(q + 1) ELSE q
    IN  loop(p)

\* Add row_r to every row i in from..to-1 whose column j is set.
eliminate(M, row_r, j, from, to) ==
    AsSeq([k \in 1..Len(M) |->
              IF from <= k - 1 /\ k - 1 < to /\ get(M[k], j) THEN xor_eq(M[k], row_r) ELSE M[k]],
          Len(M))

\* to_echelon_form: the pair <<matrix afterwards, has_pivot>>.
to_echelon_form(M0) ==
    LET num_rows == rows(M0)
        RECURSIVE loop(_, _, _, _)
        loop(M, has_pivot, r, j) ==
            IF j >= cols(M0) THEN <<M, has_pivot>>
            ELSE LET p == find_pivot(M, r, j)
                 IN  IF p < num_rows
                     THEN LET M1 == IF p # r THEN swap_rows(M, p, r) ELSE M
                              M2 == eliminate(M1, M1[r + 1], j, r + 1, num_rows)
                              hp == set(has_pivot, j, TRUE)
                          IN  IF r + 1 = num_rows THEN <<M2, hp>>
                              ELSE loop(M2, hp, r + 1, j + 1)
                     ELSE loop(M, has_pivot, r, j + 1)
    IN  loop(M0, zeros(cols(M0)), 0, 0)

\* to_reduced_echelon_form: the pair <<matrix afterwards, has_pivot>>.
to_reduced_echelon_form(M0) ==
    LET RECURSIVE loop(_, _)
        loop(M, r) ==
            IF r < 0 THEN M
            ELSE LET p == first_set(M[r + 1])
                 IN  loop(IF p # -1 THEN eliminate(M, M[r + 1], p, 0, r) ELSE M, r - 1)
        reduce(e) == <<loop(e[1], rows(M0) - 1), e[2]>>
    IN  reduce(to_echelon_form(M0))

\* An Option is the empty sequence (None) or a sequence of one value (Some).
None == <<>>

Some(x) == <<x>>

inverse(M) ==
    IF ~is_square(M) THEN None
    ELSE LET halves(matrix) ==
                 IF is_identity(sub_matrix(matrix, 0, rows(M), 0, cols(M)))
                 THEN Some(sub_matrix(matrix, 0, rows(M), cols(M), cols(M) * 2))
                 ELSE None
         IN  halves(to_reduced_echelon_form(append_cols(M, identity(rows(M))))[1])

(***************************************************************************)
(* BitLU (src/lu.rs): the record [LU, swaps, rank].                        *)
(***************************************************************************)
\* The elimination left out.
lu_row_update_skipped(LU, i, j, jp1) == LU

\* The inner loop of the elimination: row i becomes row i + row j over columns jp1...
lu_row_update(LU, i, j, jp1) ==
    LET RECURSIVE loop(_, _)
        loop(X, k) ==
            IF k >= cols(LU) THEN X
            ELSE loop(mat_set(X, i, k, mat_get(X, i, k) # mat_get(X, j, k)), k + 1)
    IN  loop(LU, jp1)

BitLU_new(A) ==
    LET n == rows(A)
        RECURSIVE clear_col(_, _, _)
        clear_col(LU, j, i) ==
            IF i >= n THEN LU
            ELSE clear_col(IF mat_get(LU, i, j) THEN lu_row_update(LU, i, j, j + 1) ELSE LU,
                           j, i + 1)
        RECURSIVE loop(_, _)
        loop(st, j) ==
            IF j >= n THEN st
            ELSE LET sw0 == Put(st.swaps, j, j)
                     p   == find_pivot(st.LU, j, j)
                 IN  IF p = n
                     THEN loop([st EXCEPT !.swaps = sw0, !.rank = st.rank - 1], j + 1)
                     ELSE LET LU1 == IF p # j THEN swap_rows(st.LU, p, j) ELSE st.LU
                              sw1 == IF p # j THEN Put(sw0, j, p) ELSE sw0
                          IN  loop([LU |-> clear_col(LU1, j, j + 1), swaps |-> sw1,
                                    rank |-> st.rank], j + 1)
    IN  loop([LU |-> A, swaps |-> Repeat(0, n), rank |-> n], 0)

L(lu) == unit_lower(lu.LU)

U(lu) == upper(lu.LU)

permute_matrix(lu, B) ==
    LET RECURSIVE loop(_, _)
        loop(X, i) == IF i >= rows(B) THEN X
                      ELSE loop(swap_rows(X, i, At(lu.swaps, i)), i + 1)
    IN  loop(B, 0)

(***************************************************************************)
(* BitGauss (src/gauss.rs): the record [A_ref, b_ref, rank, free,          *)
(* solution_count].                                                        *)
(***************************************************************************)
\* next_set: -1 stands for None.
next_set(self, index0) ==
    LET index == index0 + 1
        wi    == word_index(index)
        bit   == bit_offset(index)
        RECURSIVE loop(_)
        loop(i) ==
            IF i >= words(self) THEN -1
            ELSE LET w0 == word(self, i)
                     w  == IF i = wi THEN BitAnd(w0, BitNot(with_set_bits(0, bit))) ELSE w0
                 IN  IF lowest_set_bit(w) # -1 THEN i * W + lowest_set_bit(w) ELSE loop(i + 1)
    IN  IF index >= len(self) THEN -1 ELSE loop(wi)

\* The indices the set_bits iterator yields, in the order it yields them.
set_bits(self) ==
    LET RECURSIVE loop(_, _)
        loop(acc, index) == IF index = -1 THEN acc
                            ELSE loop(Append(acc, index), next_set(self, index))
    IN  loop(<<>>, first_set(self))

\* usize::BITS.  Rust fixes it per target at 16, 32 or 64; the narrowest
\* is taken so that the cap on solution_count is within reach.
USIZE_BITS == 16

\* Every system passes for consistent.
consistent_always(A_ref, b_ref, rank) == TRUE

\* The zero rows of A_ref, from rank to the end, meet zero entries of b_ref.
consistent(A_ref, b_ref, rank) ==
    \A i \in rank..(rows(A_ref) - 1) : ~get(b_ref, i)

BitGauss_new(A, b) ==
    LET make(A_ref, b_ref, rank, free) ==
            [A_ref |-> A_ref, b_ref |-> b_ref, rank |-> rank, free |-> free,
             solution_count |->
                 IF consistent(A_ref, b_ref, rank)
                 THEN 2^Min(Len(free), USIZE_BITS - 1) ELSE 0]
        split(removed, has_pivot) ==
            make(removed[1], removed[2], store_count_ones(has_pivot),
                 set_bits(flip_all(has_pivot)))
        from(rref) == split(remove_col(rref[1]), pop(rref[2]))
    IN  from(to_reduced_echelon_form(append_col(A, b)))

is_consistent(g) == g.solution_count > 0

\* back_substitute_into left out.
back_substitute_skipped(g, x0) == x0

back_substitute_into(g, x0) ==
    LET RECURSIVE inner(_, _, _, _)
        inner(x, i, j, k) ==
            IF k >= len(x) THEN x
            ELSE inner(IF mat_get(g.A_ref, i, k) THEN set(x, j, get(x, j) # get(x, k)) ELSE x,
                       i, j, k + 1)
        RECURSIVE outer(_, _)
        outer(x, i) ==
            IF i < 0 THEN x
            ELSE LET j == first_set(g.A_ref[i + 1])
                 IN  outer(inner(set(x, j, get(g.b_ref, i)), i, j, j + 1), i - 1)
    IN  outer(x0, g.rank - 1)

\* x(): start is the random vector the solution starts from.
gauss_x(g, start) ==
    IF ~is_consistent(g) THEN None ELSE Some(back_substitute_into(g, start))

gauss_xi(g, i0) ==
    IF ~is_consistent(g) THEN None
    ELSE IF i0 > g.solution_count THEN None
    ELSE LET RECURSIVE fill(_, _, _)
             fill(x, i, f) ==
                 IF f >= Len(g.free) THEN x
                 ELSE fill(set(x, At(g.free, f), i % 2 # 0), i \div 2, f + 1)
         IN  Some(back_substitute_into(g, fill(zeros(len(g.b_ref)), i0, 0)))

(***************************************************************************)
(* BitPolynomial (src/polynomial.rs), modelled by its coefficient vector   *)
(* coeffs: bit i is the coefficient of x^i.                                *)
(***************************************************************************)
poly_zero == new

poly_one == ones(1)

poly_constant(val) == constant(val, 1)

x_to_the(n) == set(zeros(n + 1), n, TRUE)

degree(p) == IF last_set(p) = -1 THEN 0 ELSE last_set(p)

poly_is_zero(p) == none(p)

is_one(p) == degree(p) = 0 /\ len(p) >= 1 /\ get(p, 0)

is_constant(p) == degree(p) = 0

\* squared: square_into applied to a new polynomial.
squared(p) == IF is_constant(p) THEN p ELSE riffled_into(p, new)

poly_convolved_with(p, rhs) ==
    IF poly_is_zero(p) \/ poly_is_zero(rhs) THEN poly_zero
    ELSE IF is_one(p) THEN rhs
    ELSE IF is_one(rhs) THEN p
    ELSE convolved_with(p, rhs)

eval_matrix(p, mat) ==
    IF poly_is_zero(p) THEN mat_zeros(rows(mat), cols(mat))
    ELSE LET RECURSIVE loop(_, _)
             loop(result, d) ==
                 IF d <= 0 THEN result
                 ELSE LET r1 == dot_matrix(result, mat)
                      IN  loop(IF get(p, d - 1) THEN add_identity(r1) ELSE r1, d - 1)
         IN  loop(identity(rows(mat)), degree(p))

(***************************************************************************)
(* The characteristic polynomial by Danilevsky's method (src/matrix.rs).   *)
(***************************************************************************)
\* The search for an earlier column with a set bit in row k, and the swaps.
danilevsky_swap(M, k) ==
    LET RECURSIVE loop(_)
        loop(j) == IF j >= k - 1 THEN M
                   ELSE IF mat_get(M, k, j) THEN swap_cols(swap_rows(M, j, k - 1), j, k - 1)
                   ELSE loop(j + 1)
    IN  loop(0)

\* self <- M^-1 * self: row k - 1 becomes m times each column.
danilevsky_left(M0, m, k, n) ==
    LET RECURSIVE loop(_, _)
        loop(M, j) == IF j >= n THEN M
                      ELSE loop(mat_set(M, k - 1, j, dot(m, col(M, j))), j + 1)
    IN  loop(M0, 0)

\* self <- self * M over rows 0..k-1 and columns 0..n-1.
danilevsky_right(M0, m, k, n) ==
    LET RECURSIVE cell(_, _, _)
        cell(M, i, j) ==
            IF j >= n THEN M
            ELSE LET tmp == mat_get(M, i, k - 1) /\ get(m, j)
                 IN  cell(IF j = k - 1 THEN mat_set(M, i, j, tmp)
                          ELSE mat_set(M, i, j, mat_get(M, i, j) # tmp), i, j + 1)
        RECURSIVE row(_, _)
        row(M, i) == IF i >= k THEN M ELSE row(cell(M, i, 0), i + 1)
    IN  row(M0, 0)

\* danilevsky_step: the pair <<matrix afterwards, top row of the companion block>>.
danilevsky_step(M0, n) ==
    IF n = 1 THEN <<M0, constant(mat_get(M0, 0, 0), 1)>>
    ELSE
      LET transform(M, m, k) ==
              mat_set([danilevsky_right(danilevsky_left(M, m, k, n), m, k, n)
                          EXCEPT ![k + 1] = set_all(@, FALSE)], k, k - 1, TRUE)
          RECURSIVE loop(_, _)
          RECURSIVE row(_, _)
          loop(M, k) ==
              IF k <= 0 THEN <<M, k>>
              ELSE row(IF ~mat_get(M, k, k - 1) THEN danilevsky_swap(M, k) ELSE M, k)
          row(M, k) ==
              IF ~mat_get(M, k, k - 1) THEN <<M, k>>
              ELSE loop(transform(M, M[k + 1], k), k - 1)
          RECURSIVE top(_, _, _, _)
          top(M, k, top_row, j) ==
              IF j >= n - k THEN top_row
              ELSE top(M, k, set(top_row, j, mat_get(M, k, k + j)), j + 1)
          finish(M, k) == <<M, top(M, k, zeros(n - k), 0)>>
          at_break(done) == finish(done[1], done[2])
      IN  at_break(loop(M0, n - 1))

\* frobenius_form: the top rows of the companion blocks.
frobenius_form(M0) ==
    LET RECURSIVE loop(_, _, _)
        RECURSIVE next(_, _, _)
        loop(M, n, top_rows) ==
            IF n <= 0 THEN top_rows ELSE next(danilevsky_step(M, n), n, top_rows)
        next(s, n, top_rows) == loop(s[1], n - len(s[2]), Append(top_rows, s[2]))
    IN  loop(M0, rows(M0), <<>>)

\* The companion polynomial with the top row left out of its coefficients.
characteristic_polynomial_companion_unset(top_row) == ones(len(top_row) + 1)

characteristic_polynomial_companion_matrix(top_row) ==
    LET n == len(top_row)
        RECURSIVE loop(_, _)
        loop(coeffs, j) == IF j >= n THEN coeffs
                           ELSE loop(set(coeffs, n - j - 1, get(top_row, j)), j + 1)
    IN  loop(ones(n + 1), 0)

characteristic_polynomial_frobenius_matrix(top_rows) ==
    IF Len(top_rows) = 0 THEN poly_zero
    ELSE LET RECURSIVE loop(_, _)
             loop(result, i) ==
                 IF i >= Len(top_rows) THEN result
                 ELSE loop(poly_convolved_with(result,
                               characteristic_polynomial_companion_matrix(At(top_rows, i))),
                           i + 1)
         IN  loop(characteristic_polynomial_companion_matrix(At(top_rows, 0)), 1)

characteristic_polynomial(M) ==
    characteristic_polynomial_frobenius_matrix(frobenius_form(M))

(***************************************************************************)
(* x^n mod P(x) (src/polynomial.rs, reduce_x_to_power).                    *)
(***************************************************************************)
\* usize::prev_power_of_two
prev_power_of_two(n) == IF n = 0 THEN 0 ELSE 2^(BitLength(n) - 1)

\* times_x_step without the addition of p.
times_x_step_unreduced(q, p, d) == right_shift(q, 1)

\* The closure times_x_step: q(x) -> x * q(x) mod P(x).
times_x_step(q, p, d) ==
    IF get(q, d - 1) THEN xor_eq(right_shift(q, 1), p) ELSE right_shift(q, 1)

\* The table power_mod: entry i + 1 is x^(d + i) mod P(x).
power_mod_table(p, d) ==
    LET RECURSIVE loop(_, _)
        loop(power_mod, i) ==
            IF i >= d THEN power_mod
            ELSE loop(Append(power_mod, times_x_step(At(power_mod, i - 1), p, d)), i + 1)
    IN  loop(<<p>>, 1)

\* The closure square_step: q(x) -> q(x)^2 mod P(x).
square_step(q0, power_mod, d) ==
    LET RECURSIVE add(_, _, _, _)
        add(q, h, i, h_last) ==
            IF i > h_last THEN q
            ELSE add(IF get(h, i) THEN xor_eq(q, At(power_mod, i)) ELSE q, h, i + 2, h_last)
        fold(q, h) == IF first_set(h) # -1 THEN add(q, h, first_set(h), last_set(h)) ELSE q
        halves(lh) == fold(lh[1], lh[2])
    IN  halves(split_at_into(riffled_into(q0, zeros(2 * d)), d))

\* The loop that squares n times, for x^(2^n).
RECURSIVE repeated_squaring(_, _, _, _, _)
repeated_squaring(r, power_mod, d, n, k) ==
    IF k >= n THEN r
    ELSE repeated_squaring(square_step(r, power_mod, d), power_mod, d, n, k + 1)

\* One round of the loop over the bits of n: a square step, then a times_x
\* step if the bit n_bit of n is set.
square_and_multiply_step(r, p, power_mod, d, n, n_bit) ==
    IF (n \div n_bit) % 2 # 0 THEN times_x_step(square_step(r, power_mod, d), p, d)
    ELSE square_step(r, power_mod, d)

\* The loop over the bits of n below its highest, on the pair <<r, n_bit>>.
RECURSIVE square_and_multiply(_, _, _, _, _)
square_and_multiply(st, p, power_mod, d, n) ==
    IF st[2] <= 0 THEN st[1]
    ELSE square_and_multiply(<<square_and_multiply_step(st[1], p, power_mod, d, n, st[2]),
                               st[2] \div 2>>, p, power_mod, d, n)

\* reduce_x_to_power once d, p and the table power_mod are known.
reduce_with_table(p, power_mod, d, n, n_is_exponent) ==
    IF n_is_exponent THEN repeated_squaring(set(zeros(d), 1, TRUE), power_mod, d, n, 0)
    ELSE IF n < d THEN x_to_the(n)
    ELSE IF n = d THEN p
    ELSE square_and_multiply(<<set(zeros(d), 1, TRUE), prev_power_of_two(n) \div 2>>,
                             p, power_mod, d, n)

\* reduce_x_to_power from the coefficients p below the degree d.
reduce_with_p(p, d, n, n_is_exponent) ==
    reduce_with_table(p, power_mod_table(p, d), d, n, n_is_exponent)

reduce_x_to_power(self, n, n_is_exponent) ==
    IF is_one(self) THEN poly_zero
    ELSE IF n = 0 /\ ~n_is_exponent THEN poly_one
    ELSE IF degree(self) = 1 THEN poly_constant(get(self, 0))
    ELSE reduce_with_p(from_store(slice(self, 0, degree(self))), degree(self), n, n_is_exponent)

reduce_x_to_the(self, n) == reduce_x_to_power(self, n, FALSE)

reduce_x_to_the_2_to_the(self, n) == reduce_x_to_power(self, n, TRUE)

(***************************************************************************)
(* The shared generator (src/rng.rs).  A u64 is the sequence of its eight  *)
(* bytes, the lowest first.                                                *)
(***************************************************************************)
\* The u64 with the 16-bit groups a3, a2, a1, a0 from the highest down.
U64(a3, a2, a1, a0) ==
    <<a0 % 256, a0 \div 256, a1 % 256, a1 \div 256,
      a2 % 256, a2 \div 256, a3 % 256, a3 \div 256>>

U64_ZERO == U64(0, 0, 0, 0)

\* The constants of split-mix64.
GAMMA == U64(\H9e37, \H79b9, \H7f4a, \H7c15)

MIX1 == U64(\Hbf58, \H476d, \H1ce4, \He5b9)

MIX2 == U64(\H94d0, \H49bb, \H1331, \H11eb)

\* u64::wrapping_add, byte by byte on the triple <<bytes so far, i, carry>>.
wrapping_add(a, b) ==
    LET RECURSIVE loop(_)
        loop(st) ==
            IF st[2] > 8 THEN st[1]
            ELSE loop(<<Append(st[1], (a[st[2]] + b[st[2]] + st[3]) % 256), st[2] + 1,
                        (a[st[2]] + b[st[2]] + st[3]) \div 256>>)
    IN  loop(<<<<>>, 1, 0>>)

\* The sum of the byte products a[i] * b[j] that land on byte k.
mul_column(a, b, k) ==
    LET RECURSIVE loop(_)
        loop(st) == IF st[1] > k THEN st[2]
                    ELSE loop(<<st[1] + 1, st[2] + a[st[1]] * b[k + 1 - st[1]]>>)
    IN  loop(<<1, 0>>)

\* u64::wrapping_mul, byte by byte on the triple <<bytes so far, k, carry>>.
wrapping_mul(a, b) ==
    LET RECURSIVE loop(_)
        loop(st) ==
            IF st[2] > 8 THEN st[1]
            ELSE loop(<<Append(st[1], (mul_column(a, b, st[2]) + st[3]) % 256), st[2] + 1,
                        (mul_column(a, b, st[2]) + st[3]) \div 256>>)
    IN  loop(<<<<>>, 1, 0>>)

\* The byte i of a, zero beyond the eighth.
byte_at(a, i) == IF i <= 8 THEN a[i] ELSE 0

\* u64 >> n: byte i takes the high bits of byte i + n / 8 and the low
\* bits of the byte above it.
shr64(a, n) ==
    LET q == n \div 8
        r == n % 8
    IN  AsSeq([i \in 1..8 |->
                  ((byte_at(a, i + q) \div 2^r) + ((byte_at(a, i + q + 1) * 2^(8 - r)) % 256))
                      % 256], 8)

\* u64 ^ u64
xor64(a, b) == AsSeq([i \in 1..8 |-> BitXor(a[i], b[i])], 8)

\* z ^ (z >> n)
xor_shift(z, n) == xor64(z, shr64(z, n))

\* SplitMix64::next, its first statement: the state afterwards.
next_state(state) == wrapping_add(state, GAMMA)

\* SplitMix64::next, the rest: the word made of the state.
next_output(state) ==
    xor_shift(wrapping_mul(xor_shift(wrapping_mul(xor_shift(state, 30), MIX1), 27), MIX2), 31)

\* seed that reads a cleared state.
seed_cleared(g) == U64_ZERO

\* SplitMix64::seed
seed(g) == g.state

\* set_seed that leaves the state alone.
set_seed_ignored(g, s) == g

\* SplitMix64::set_seed
set_seed(g, s) == [g EXCEPT !.state = s]

\* Mutex::lock that does not wait for the lock to be free.
lock_available_always(g) == TRUE

\* Mutex::lock returns once no thread holds the lock (owner 0).
lock_available(g) == g.owner = 0

(***************************************************************************)
(* Scans for set and unset bits (src/store.rs); -1 stands for None.        *)
(***************************************************************************)
RECURSIVE word_trailing_ones(_)
word_trailing_ones(a) == IF a % 2 = 1 THEN 1 + word_trailing_ones(a \div 2) ELSE 0

word_leading_ones(a) == word_leading_zeros(BitNot(a))

lowest_unset_bit(a) == IF a # MAXW THEN word_trailing_ones(a) ELSE -1

highest_unset_bit(a) == IF a # MAXW THEN W - word_leading_ones(a) - 1 ELSE -1

\* Word::set_bits over the half-open range start..end.
word_set_bits(a, start, end) == BitOr(a, with_set_bits(start, end))

\* Word::reset_bits over the half-open range start..end.
word_reset_bits(a, start, end) == BitAnd(a, BitNot(with_set_bits(start, end)))

\* The final word with its unused bits replaced by ones.
final_word_filled(self, i, w) ==
    IF i = words(self) - 1
    THEN word_set_bits(w, bit_offset(len(self) - 1) + 1, W)
    ELSE w

previous_set(self, index0) ==
    IF is_empty(self) \/ index0 = 0 THEN -1
    ELSE LET index == IF index0 >= len(self) THEN len(self) - 1 ELSE index0 - 1
             wi    == word_index(index)
             bit   == bit_offset(index)
             RECURSIVE loop(_)
             loop(i) ==
                 IF i < 0 THEN -1
                 ELSE LET w0 == word(self, i)
                          w  == IF i = wi THEN word_reset_bits(w0, bit + 1, W) ELSE w0
                      IN  IF highest_set_bit(w) # -1 THEN i * W + highest_set_bit(w)
                          ELSE loop(i - 1)
         IN  loop(wi)

first_unset(self) ==
    LET RECURSIVE loop(_)
        loop(i) ==
            IF i >= words(self) THEN -1
            ELSE LET w == final_word_filled(self, i, word(self, i))
                 IN  IF lowest_unset_bit(w) # -1 THEN i * W + lowest_unset_bit(w)
                     ELSE loop(i + 1)
    IN  loop(0)

last_unset(self) ==
    LET RECURSIVE loop(_)
        loop(i) ==
            IF i < 0 THEN -1
            ELSE LET w == final_word_filled(self, i, word(self, i))
                 IN  IF highest_unset_bit(w) # -1 THEN i * W + highest_unset_bit(w)
                     ELSE loop(i - 1)
    IN  loop(words(self) - 1)

\* next_unset that does not fill the unused bits of the final word.
next_unset_unfilled(self, index0) ==
    LET index == index0 + 1
        wi    == word_index(index)
        bit   == bit_offset(index)
        RECURSIVE loop(_)
        loop(i) ==
            IF i >= words(self) THEN -1
            ELSE LET w0 == word(self, i)
                     w  == IF i = wi THEN word_set_bits(w0, 0, bit) ELSE w0
                 IN  IF lowest_unset_bit(w) # -1 THEN i * W + lowest_unset_bit(w)
                     ELSE loop(i + 1)
    IN  IF index >= len(self) THEN -1 ELSE loop(wi)

next_unset(self, index0) ==
    LET index == index0 + 1
        wi    == word_index(index)
        bit   == bit_offset(index)
        RECURSIVE loop(_)
        loop(i) ==
            IF i >= words(self) THEN -1
            ELSE LET w0 == word(self, i)
                     w1 == IF i = wi THEN word_set_bits(w0, 0, bit) ELSE w0
                     w  == final_word_filled(self, i, w1)
                 IN  IF lowest_unset_bit(w) # -1 THEN i * W + lowest_unset_bit(w)
                     ELSE loop(i + 1)
    IN  IF index >= len(self) THEN -1 ELSE loop(wi)

previous_unset(self, index0) ==
    IF is_empty(self) \/ index0 = 0 THEN -1
    ELSE LET index == IF index0 >= len(self) THEN len(self) - 1 ELSE index0 - 1
             wi    == word_index(index)
             bit   == bit_offset(index)
             RECURSIVE loop(_)
             loop(i) ==
                 IF i < 0 THEN -1
                 ELSE LET w0 == word(self, i)
                          w1 == IF i = wi THEN word_set_bits(w0, bit + 1, W) ELSE w0
                          w  == final_word_filled(self, i, w1)
                      IN  IF highest_unset_bit(w) # -1 THEN i * W + highest_unset_bit(w)
                          ELSE loop(i - 1)
         IN  loop(wi)

(***************************************************************************)
(* all and trailing_zeros (src/store.rs).                                  *)
(***************************************************************************)
all(self) ==
    IF is_empty(self) THEN TRUE
    ELSE IF \E i \in 0..(words(self) - 2) : word(self, i) # MAXW THEN FALSE
    ELSE LET unused_bits   == W - (len(self) % W)
             last_word_max == unbounded_shr(MAXW, unused_bits)
         IN  word(self, words(self) - 1) = last_word_max

\* trailing_zeros: the sum is formed before unused_bits is subtracted, and
\* a negative answer stands for that subtraction passing below zero (the
\* arithmetic is on usize).
trailing_zeros(self) ==
    IF is_empty(self) THEN 0
    ELSE LET last_word   == words(self) - 1
             unused_bits == W - (len(self) % W)
             RECURSIVE loop(_)
             loop(i) ==
                 IF i < 0 THEN len(self)
                 ELSE IF word(self, i) # 0
                      THEN (last_word - i) * W + word_leading_zeros(word(self, i)) - unused_bits
                      ELSE loop(i - 1)
         IN  loop(last_word)

(***************************************************************************)
(* copy_store between stores of any two word widths (src/store.rs).  The   *)
(* word operations it uses are those above at a word width of b bits.      *)
(***************************************************************************)
\* Word::with_set_bits at b bits over the half-open range start..end.
with_set_bits_of(b, start, end) ==
    LET max == 2^b - 1
        shl == IF start >= b THEN 0 ELSE (max % 2^(b - start)) * 2^start
        shr == IF b - end >= b THEN 0 ELSE max \div 2^(b - end)
    IN  BitAnd(shl, shr)

\* Word::replace_bits at b bits.
replace_bits_of(b, self, start, end, with) ==
    LET mask == with_set_bits_of(b, start, end)
    IN  BitOr(BitAnd(self, (2^b - 1) - mask), BitAnd(with, mask))

\* BitVec::word / BitSlice::word at b bits.
word_of(b, self, i) ==
    IF ~IsSlice(self) THEN At(self.m_store, i)
    ELSE LET last        == self.m_offset + self.m_len - 1
             last_offset == last % b
             whole       == i # self.m_words - 1
             u0_bits     == IF whole \/ last_offset < self.m_offset
                            THEN b - self.m_offset
                            ELSE last_offset - self.m_offset + 1
             u1_bits     == IF whole THEN self.m_offset
                            ELSE IF last_offset < self.m_offset THEN last_offset + 1
                            ELSE 0
             u0          == At(self.m_store, self.m_ptr + i)
             res0        == replace_bits_of(b, 0, 0, u0_bits, u0 \div 2^(self.m_offset))
         IN  IF u1_bits # 0
             THEN LET u1 == At(self.m_store, self.m_ptr + i + 1)
                  IN  replace_bits_of(b, res0, u0_bits, u0_bits + u1_bits,
                                      (u1 % 2^(b - u0_bits)) * 2^u0_bits)
             ELSE res0

\* BitVec::set_word at b bits.
set_word_of(b, self, i, value) ==
    IF i < Len(self.m_store) - 1
    THEN [self EXCEPT !.m_store = Put(self.m_store, i, value)]
    ELSE LET last_offset == (self.m_len - 1) % b
         IN  [self EXCEPT !.m_store =
                 Put(self.m_store, i,
                     replace_bits_of(b, At(self.m_store, i), 0, last_offset + 1, value))]

\* A nibbled word made of the low bits of the first source word only.
nibbled_word_first(dw, self, sw, src, dst_word_index) ==
    word_of(sw, src, (dst_word_index * dw) \div sw) % 2^dw

\* The word of dw bits that copy_store nibbles from the source for the
\* destination word dst_word_index, on <<dst_word, remaining, src_bit>>.
nibbled_word(dw, self, sw, src, dst_word_index) ==
    LET start_bit == dst_word_index * dw
        end_bit   == Min(start_bit + dw, len(self))
        RECURSIVE while(_)
        while(st) ==
            IF st[2] <= 0 THEN st[1]
            ELSE LET src_word_index == st[3] \div sw
                     src_offset     == st[3] % sw
                     src_word       == word_of(sw, src, src_word_index)
                     available      == Min(sw - src_offset, st[2])
                     mask           == with_set_bits_of(sw, 0, available)
                     chunk          == BitAnd(src_word \div 2^src_offset, mask)
                     dst_offset     == st[3] - start_bit
                     placed         == (chunk % 2^(dw - dst_offset)) * 2^dst_offset
                 IN  while(<<BitOr(st[1], placed), st[2] - available, st[3] + available>>)
    IN  while(<<0, end_bit - start_bit, start_bit>>)

\* copy_store into a bit-vector of dw-bit words from a store of sw-bit words.
copy_store_of(dw, self, sw, src) ==
    LET RECURSIVE fast(_)
        fast(st) == IF st[2] >= Len(self.m_store) THEN st[1]
                    ELSE fast(<<set_word_of(dw, st[1], st[2], word_of(sw, src, st[2])),
                                st[2] + 1>>)
        RECURSIVE general(_)
        general(st) ==
            IF st[2] >= Len(self.m_store) THEN st[1]
            ELSE general(<<set_word_of(dw, st[1], st[2],
                                       nibbled_word(dw, self, sw, src, st[2])), st[2] + 1>>)
    IN  IF is_empty(self) THEN self
        ELSE IF dw = sw THEN fast(<<self, 0>>)
        ELSE general(<<self, 0>>)

(***************************************************************************)
(* Strings (src/store.rs, src/vec.rs).  A string is the sequence of its    *)
(* characters, each a string of one character.                             *)
(***************************************************************************)
\* The digits of the upper-case formats, by value.
DIGITS == <<"0", "1", "2", "3", "4", "5", "6", "7", "8", "9", "A", "B", "C", "D", "E", "F">>

\* The lower-case spellings of the digits from ten on.
LOWER_DIGITS == <<"a", "b", "c", "d", "e", "f">>

\* char::to_digit: the value of the character x as a digit of the base (-1 stands for None).
to_digit(x, base) ==
    LET value == IF \E d \in 1..16 : DIGITS[d] = x THEN (CHOOSE d \in 1..16 : DIGITS[d] = x) - 1
                 ELSE IF \E d \in 1..6 : LOWER_DIGITS[d] = x
                      THEN (CHOOSE d \in 1..6 : LOWER_DIGITS[d] = x) + 9
                 ELSE -1
    IN  IF value < base THEN value ELSE -1

\* Word::reverse_bits
reverse_bits(a) ==
    LET RECURSIVE sum(_)
        sum(i) == IF i >= W THEN 0 ELSE BitOf(a, i) * 2^(W - 1 - i) + sum(i + 1)
    IN  sum(0)

\* The formats {:0width$b} and {:0width$X}: x to the base in at least
\* width digits, the most significant first.
RECURSIVE format_radix(_, _, _)
format_radix(x, base, width) ==
    IF x = 0 /\ width <= 0 THEN <<>>
    ELSE Append(format_radix(x \div base, base, width - 1), DIGITS[(x % base) + 1])

\* String::truncate
truncate(s, n) == IF n < Len(s) THEN SubSeq(s, 1, n) ELSE s

\* The characters of s that are not whitespace, commas or underscores.
RECURSIVE without_separators(_)
without_separators(s) ==
    IF s = <<>> THEN <<>>
    ELSE IF Head(s) \in {" ", ",", "_"} THEN without_separators(Tail(s))
    ELSE <<Head(s)>> \o without_separators(Tail(s))

\* str::strip_prefix for a prefix of two characters, or s if it has not that prefix.
without_prefix(s, c0, c1) ==
    IF Len(s) >= 2 /\ s[1] = c0 /\ s[2] = c1 THEN SubSeq(s, 3, Len(s)) ELSE s

\* to_custom_binary_string("", "", "")
to_binary_string(self) ==
    IF is_empty(self) THEN <<>>
    ELSE LET RECURSIVE loop(_)
             loop(st) == IF st[2] >= words(self) THEN st[1]
                         ELSE loop(<<st[1] \o format_radix(reverse_bits(word(self, st[2])), 2, W),
                                     st[2] + 1>>)
         IN  truncate(loop(<<<<>>, 0>>), len(self))

to_hex_string(self) ==
    IF is_empty(self) THEN <<>>
    ELSE LET digits == div_ceil(len(self), 4)
             hex_digits_per_word == W \div 4
             RECURSIVE loop(_)
             loop(st) ==
                 IF st[2] >= words(self) THEN st[1]
                 ELSE loop(<<st[1] \o format_radix(reverse_bits(word(self, st[2])), 16,
                                                   hex_digits_per_word),
                             st[2] + 1>>)
             k == len(self) % 4
             RECURSIVE num(_)
             num(i) == IF i >= k THEN 0
                       ELSE (IF get(self, len(self) - 1 - i) THEN 2^i ELSE 0) + num(i + 1)
             replaced(result) ==
                 truncate(result, Len(result) - 1) \o format_radix(num(0), 16, 1)
                     \o <<".">> \o format_radix(2^k, 10, 1)
         IN  IF k # 0 THEN replaced(truncate(loop(<<<<>>, 0>>), digits))
             ELSE truncate(loop(<<<<>>, 0>>), digits)

from_binary_string(s0) ==
    IF s0 = <<>> THEN Some(new)
    ELSE LET s == without_separators(without_prefix(s0, "0", "b"))
             RECURSIVE loop(_)
             loop(st) == IF st[2] >= Len(s) THEN st[1]
                         ELSE loop(<<IF At(s, st[2]) = "1" THEN set(st[1], st[2], TRUE)
                                     ELSE st[1], st[2] + 1>>)
         IN  IF \E i \in 1..Len(s) : s[i] \notin {"0", "1"} THEN None
             ELSE Some(loop(<<zeros(Len(s)), 0>>))

\* append_digit that puts the lowest bit of the digit first.
append_digit_reversed(self, x, base) ==
    LET digit      == to_digit(x, base)
        digit_bits == CHOOSE b \in 1..4 : 2^b = base
        RECURSIVE loop(_)
        loop(st) == IF st[2] >= digit_bits THEN st[1]
                    ELSE loop(<<IF BitOf(digit, st[2]) # 0
                                THEN set(st[1], self.m_len + st[2], TRUE)
                                ELSE st[1], st[2] + 1>>)
    IN  IF base \in {2, 4, 8, 16} /\ digit # -1
        THEN loop(<<resize(self, self.m_len + digit_bits), 0>>)
        ELSE self

append_digit(self, x, base) ==
    LET digit      == to_digit(x, base)
        digit_bits == CHOOSE b \in 1..4 : 2^b = base
        RECURSIVE loop(_)
        loop(st) == IF st[2] >= digit_bits THEN st[1]
                    ELSE loop(<<IF BitOf(digit, digit_bits - 1 - st[2]) # 0
                                THEN set(st[1], self.m_len + st[2], TRUE)
                                ELSE st[1], st[2] + 1>>)
    IN  IF base \in {2, 4, 8, 16} /\ digit # -1
        THEN loop(<<resize(self, self.m_len + digit_bits), 0>>)
        ELSE self

append_hex_digit(self, x) ==
    LET digit == to_digit(x, 16)
        RECURSIVE loop(_)
        loop(st) == IF st[2] >= 4 THEN st[1]
                    ELSE loop(<<IF BitOf(digit, 3 - st[2]) # 0
                                THEN set(st[1], self.m_len + st[2], TRUE)
                                ELSE st[1], st[2] + 1>>)
    IN  IF digit # -1 THEN loop(<<resize(self, self.m_len + 4), 0>>) ELSE self

\* The outcome of a call that panics.
Panicked == <<[panicked |-> TRUE]>>

\* from_hex_string; slicing off the last character of a string left empty panics.
from_hex_string(s0) ==
    IF s0 = <<>> THEN Some(new)
    ELSE LET s1 == IF without_prefix(s0, "0", "x") # s0 THEN without_prefix(s0, "0", "x")
                   ELSE without_prefix(s0, "0", "X")
             ends_with(c) == Len(s1) >= 2 /\ s1[Len(s1) - 1] = "." /\ s1[Len(s1)] = c
             last_digit_base == IF ends_with("2") THEN 2
                                ELSE IF ends_with("4") THEN 4
                                ELSE IF ends_with("8") THEN 8
                                ELSE 16
             s2 == IF last_digit_base # 16 THEN SubSeq(s1, 1, Len(s1) - 2) ELSE s1
             s  == without_separators(s2)
             RECURSIVE loop(_)
             loop(st) == IF st[2] >= Len(s) - 1 THEN st[1]
                         ELSE loop(<<append_hex_digit(st[1], At(s, st[2])), st[2] + 1>>)
         IN  IF \E i \in 1..Len(s) : to_digit(s[i], 16) = -1 THEN None
             ELSE IF s = <<>> THEN Panicked
             ELSE Some(append_digit(loop(<<new, 0>>), s[Len(s)], last_digit_base))

(***************************************************************************)
(* Polynomial sum and evaluation at a bit (src/polynomial.rs).             *)
(***************************************************************************)
is_monic(p) == trailing_zeros(p) = 0

\* The subtraction in trailing_zeros passes below zero: a panic in a build
\* with overflow checks, a wrapped value (not zero) in one without.
is_monic_overflows(p) == trailing_zeros(p) < 0

\* The number of coefficient words plus_eq and eval_bool go over.
monic_words(p) == IF is_monic(p) THEN degree(p) \div W + 1 ELSE 0

\* plus_eq: the coefficients self is left with.
plus_eq(self, rhs) ==
    IF poly_is_zero(rhs) THEN self
    ELSE IF poly_is_zero(self) THEN rhs
    ELSE LET RECURSIVE loop(_)
             loop(st) ==
                 IF st[2] >= monic_words(rhs) THEN st[1]
                 ELSE loop(<<set_word(st[1], st[2], BitXor(word(rhs, st[2]), word(st[1], st[2]))),
                             st[2] + 1>>)
         IN  loop(<<IF len(self) < degree(rhs) + 1 THEN resize(self, degree(rhs) + 1) ELSE self,
                    0>>)

\* plus_eq reaches is_monic.
plus_eq_asks_monic(self, rhs) == ~poly_is_zero(rhs) /\ ~poly_is_zero(self)

eval_bool(self, x) ==
    IF poly_is_zero(self) THEN FALSE
    ELSE IF ~x THEN get(self, 0)
    ELSE LET RECURSIVE loop(_)
             loop(st) == IF st[2] >= monic_words(self) THEN st[1]
                         ELSE loop(<<BitXor(st[1], word(self, st[2])), st[2] + 1>>)
         IN  count_ones(loop(<<0, 0>>)) % 2 = 1

\* eval_bool reaches is_monic.
eval_bool_asks_monic(self, x) == ~poly_is_zero(self) /\ x

(***************************************************************************)
(* State.  v is the bit-vector the bit-vector machine operates on; pc is   *)
(* the position of a computation, arg its input and res its result; rng is *)
(* the shared generator behind its mutex and thr the threads that use it.  *)
(***************************************************************************)
VARIABLES v, pc, arg, res, rng, thr

vars == <<v, pc, arg, res, rng, thr>>

\* Words used as operands: zero, all ones, alternating, and a mixed word.
Patterns == {0, MAXW, ALTERNATING, 2^(W - 1) + 2^(W - 2) + 2 + 1}

Idle == <<>>

Init ==
    /\ v = new
    /\ pc = "vec"
    /\ arg = Idle
    /\ res = Idle
    /\ rng = Idle
    /\ thr = Idle

\* A bit-vector operation leaves the vector nv behind.
Step(nv) ==
    /\ v' = nv
    /\ UNCHANGED <<pc, arg, res, rng, thr>>

Construct ==
    \E n \in 0..MaxLen :
        \/ Step(new)
        \/ Step(zeros(n))
        \/ Step(ones(n))
        \/ \E b \in BOOLEAN : Step(constant(b, n))
        \/ Step(alternating(n))
        \/ \E i \in 0..(n - 1) : Step(unit(i, n))
        \/ \E w \in Patterns : Step(from_word(w, n))
        \/ \E w \in Patterns : n = W /\ Step(from_unsigned(w, W))
        \/ \E w \in Patterns : n > 0 /\ Step(from_store(from_word(w, n)))

Set == \E i \in 0..(len(v) - 1), b \in BOOLEAN : Step(set(v, i, b))

Flip == \E i \in 0..(len(v) - 1) : Step(flip(v, i))

Swap == \E i0, i1 \in 0..(len(v) - 1) : Step(swap(v, i0, i1))

SetAll == \E b \in BOOLEAN : Step(set_all(v, b))

FlipAll == Step(flip_all(v))

Push == \E b \in BOOLEAN : len(v) < MaxLen /\ Step(push(v, b))

Pop == ~is_empty(v) /\ Step(pop(v))

Resize == \E n \in 0..MaxLen : Step(resize(v, n))

Clear == Step(clear(v))

AppendUnsigned ==
    \E w \in Patterns :
        /\ len(v) + W <= MaxLen
        /\ Step(append_unsigned(v, w, W))

AppendStore ==
    \E w \in Patterns, n \in 1..MaxLen :
        /\ len(v) + n <= MaxLen
        /\ append_store_ok(v, from_word(w, n))
        /\ Step(append_store(v, from_word(w, n)))

\* split_off keeps the front in v; SplitOffTail keeps the part split off.
SplitOff ==
    \E at \in 0..MaxLen :
        /\ split_off_ok(v, at)
        /\ \/ Step(split_off_into(v, at)[1])
           \/ Step(split_off_into(v, at)[2])

SplitOffWord == ~is_empty(v) /\ Step(split_off_word(v)[1])

CopyUnsigned ==
    \E w \in Patterns : len(v) = W /\ Step(copy_unsigned(v, w, W))

CopyStore ==
    \E w \in Patterns : Step(copy_store(v, from_word(w, len(v))))

LeftShift == \E k \in 0..(MaxLen + 1) : Step(left_shift(v, k))

RightShift == \E k \in 0..(MaxLen + 1) : Step(right_shift(v, k))

XorEq == \E w \in Patterns : Step(xor_eq(v, from_word(w, len(v))))

AndEq == \E w \in Patterns : Step(and_eq(v, from_word(w, len(v))))

OrEq == \E w \in Patterns : Step(or_eq(v, from_word(w, len(v))))

Riffle == 2 * len(v) - 1 <= MaxLen /\ Step(riffled(v))

\* The outcomes of the draws of a random fill are the bits of a pattern word.
Draws(w, n) == [i \in 1..n |-> BitOf(w, (i - 1) % W) = 1]

FillRandom ==
    \E w \in Patterns, p_class \in {"zero", "one", "mid"} :
        Step(fill_random_biased(v, p_class, Draws(w, len(v))))

Next ==
    \/ Construct \/ Set \/ Flip \/ Swap \/ SetAll \/ FlipAll
    \/ Push \/ Pop \/ Resize \/ Clear
    \/ AppendUnsigned \/ AppendStore \/ SplitOff \/ SplitOffWord
    \/ CopyUnsigned \/ CopyStore
    \/ LeftShift \/ RightShift \/ XorEq \/ AndEq \/ OrEq \/ Riffle
    \/ FillRandom

Spec == Init /\ [][Next]_vars

\* The number of bits of the last word that lie inside a vector.
TailBits(self) == self.m_len % W

\* The unoccupied bits of the last storage word are all zero.
ZeroTail(self) ==
    TailBits(self) # 0 =>
        unbounded_shr(At(self.m_store, Len(self.m_store) - 1), TailBits(self)) = 0

\* C1: after any sequence of bit-vector operations, when len mod W is not
\* zero the bits of the last storage word at positions >= len mod W are zero.
C1_ZeroTail == ZeroTail(v)

\* A vector ending inside a word whose bits were all flipped to one.
C1_Witness ==
    /\ v.m_len = W + 2
    /\ v.m_store = <<MAXW, 3>>

(***************************************************************************)
(* The mathematics the results are compared with: a bit-store as the       *)
(* sequence of its bits, a matrix as the sequence of its rows' bits.       *)
(***************************************************************************)
Bits(s) == [i \in 1..len(s) |-> BitOf(word(s, word_index(i - 1)), bit_offset(i - 1))]

MatBits(M) == [r \in 1..Len(M) |-> Bits(M[r])]

RECURSIVE SumMod2(_, _, _)
SumMod2(f, lo, hi) == IF lo > hi THEN 0 ELSE (f[lo] + SumMod2(f, lo + 1, hi)) % 2

\* The product over GF(2) of an r x n and an n x c matrix of bits.
MatMul(X, Y) ==
    [i \in 1..Len(X) |->
        [j \in 1..Len(Y[1]) |->
            SumMod2([k \in 1..Len(Y) |-> X[i][k] * Y[k][j]], 1, Len(Y))]]

\* The product over GF(2) of a matrix of bits and a vector of bits.
MatVec(X, y) ==
    [i \in 1..Len(X) |-> SumMod2([k \in 1..Len(y) |-> X[i][k] * y[k]], 1, Len(y))]

IdentityBits(n) == [i \in 1..n |-> [j \in 1..n |-> IF i = j THEN 1 ELSE 0]]

ZeroBits(n) == [i \in 1..n |-> [j \in 1..n |-> 0]]

(***************************************************************************)
(* Matrix computations: arg is a square matrix and each action applies one *)
(* of the library's algorithms to it.                                      *)
(***************************************************************************)
\* Largest matrix dimension explored.
MaxN == 3

\* All bit-vectors of length n.
AllVecs(n) == {from_word(w, n) : w \in 0..(2^n - 1)}

SquareMatrices == UNION {[1..n -> AllVecs(n)] : n \in 1..MaxN}

InitMat ==
    /\ v = new
    /\ pc = "start"
    /\ arg \in SquareMatrices
    /\ res = Idle
    /\ rng = Idle
    /\ thr = Idle

LuDecompose ==
    /\ pc = "start"
    /\ pc' = "lu"
    /\ res' = BitLU_new(arg)
    /\ UNCHANGED <<v, arg, rng, thr>>

GaussNew ==
    /\ pc = "start"
    /\ pc' = "gauss"
    /\ \E b \in AllVecs(rows(arg)) : res' = [b |-> b, g |-> BitGauss_new(arg, b)]
    /\ UNCHANGED <<v, arg, rng, thr>>

GaussX ==
    /\ pc = "gauss"
    /\ pc' = "gauss_x"
    /\ \E start \in AllVecs(rows(arg)) :
           res' = [b |-> res.b, g |-> res.g, i |-> 0, x |-> gauss_x(res.g, start)]
    /\ UNCHANGED <<v, arg, rng, thr>>

GaussXi ==
    /\ pc = "gauss"
    /\ pc' = "gauss_xi"
    /\ \E i \in 0..(2^MaxN + 1) :
           res' = [b |-> res.b, g |-> res.g, i |-> i, x |-> gauss_xi(res.g, i)]
    /\ UNCHANGED <<v, arg, rng, thr>>

Inverse ==
    /\ pc = "start"
    /\ pc' = "inverse"
    /\ res' = inverse(arg)
    /\ UNCHANGED <<v, arg, rng, thr>>

CharPoly ==
    /\ pc = "start"
    /\ pc' = "charpoly"
    /\ res' = characteristic_polynomial(arg)
    /\ UNCHANGED <<v, arg, rng, thr>>

\* One specification per algorithm, each over every square matrix up to MaxN.
SpecLU == InitMat /\ [][LuDecompose]_vars

NextGauss == GaussNew \/ GaussX \/ GaussXi

SpecGauss == InitMat /\ [][NextGauss]_vars

SpecInverse == InitMat /\ [][Inverse]_vars

SpecCharPoly == InitMat /\ [][CharPoly]_vars

IsUnitLower(X) ==
    \A i, j \in 1..Len(X) : (i = j => X[i][j] = 1) /\ (j > i => X[i][j] = 0)

IsUpper(X) == \A i, j \in 1..Len(X) : j < i => X[i][j] = 0

\* C2: for every square matrix A, singular ones included, permute_matrix
\* applied to a copy of A equals L() times U(), with L unit lower triangular
\* and U upper triangular.
C2_LU ==
    pc = "lu" =>
        LET PA == permute_matrix(res, arg)
        IN  /\ PA = dot_matrix(L(res), U(res))
            /\ MatBits(PA) = MatMul(MatBits(L(res)), MatBits(U(res)))
            /\ IsUnitLower(MatBits(L(res)))
            /\ IsUpper(MatBits(U(res)))

\* A singular 3 x 3 matrix whose decomposition swapped rows.
C2_Witness ==
    /\ pc = "lu"
    /\ rows(arg) = 3
    /\ res.rank < 3
    /\ \E j \in 0..2 : At(res.swaps, j) # j

\* C3: when the system is consistent, every vector returned by x() and by
\* xi(i) with i < solution_count() satisfies A.x = b.
C3_GaussSolves ==
    (/\ pc \in {"gauss_x", "gauss_xi"}
     /\ is_consistent(res.g)
     /\ pc = "gauss_xi" => res.i < res.g.solution_count)
    => /\ res.x # None
       /\ MatVec(MatBits(arg), Bits(res.x[1])) = Bits(res.b)
       /\ mat_dot(arg, res.x[1]) = res.b

\* The last indexed solution of an underdetermined 3 x 3 system with b # 0.
C3_Witness ==
    /\ pc = "gauss_xi"
    /\ rows(arg) = 3
    /\ res.g.rank = 1
    /\ res.i = res.g.solution_count - 1
    /\ any(res.b)
    /\ res.x # None

\* C4: when A.inverse() returns Some(Ainv), A.Ainv and Ainv.A are both the
\* identity matrix.
C4_Inverse ==
    (pc = "inverse" /\ res # None) =>
        LET Ainv == res[1]
            n    == rows(arg)
        IN  /\ MatMul(MatBits(arg), MatBits(Ainv)) = IdentityBits(n)
            /\ MatMul(MatBits(Ainv), MatBits(arg)) = IdentityBits(n)
            /\ is_identity(dot_matrix(arg, Ainv))
            /\ is_identity(dot_matrix(Ainv, arg))

\* An invertible 3 x 3 matrix that is not its own inverse.
C4_Witness ==
    /\ pc = "inverse"
    /\ rows(arg) = 3
    /\ res # None
    /\ res # Some(arg)

\* The sum over GF(2) of two matrices of bits.
MatAdd(X, Y) == [i \in 1..Len(X) |-> [j \in 1..Len(X[i]) |-> (X[i][j] + Y[i][j]) % 2]]

\* The matrix of bits X evaluated in the polynomial with coefficient bits c,
\* by Horner's rule from the coefficient of x^d down.
RECURSIVE PolyAt(_, _, _)
PolyAt(c, X, d) ==
    IF d = 0 THEN ZeroBits(Len(X))
    ELSE LET rest == MatMul(PolyAt(c, X, d - 1), X)
         IN  IF c[Len(c) - d + 1] = 1 THEN MatAdd(rest, IdentityBits(Len(X))) ELSE rest

\* C5: for every square matrix M, M.characteristic_polynomial() evaluated at
\* M by eval_matrix is the zero matrix (Cayley-Hamilton).
C5_CayleyHamilton ==
    pc = "charpoly" =>
        /\ MatBits(eval_matrix(res, arg)) = ZeroBits(rows(arg))
        /\ PolyAt(Bits(res), MatBits(arg), len(res)) = ZeroBits(rows(arg))
        /\ degree(res) = rows(arg)

\* A 3 x 3 matrix whose Frobenius form has more than one companion block.
C5_Witness ==
    /\ pc = "charpoly"
    /\ rows(arg) = 3
    /\ Len(frobenius_form(arg)) > 1
    /\ any(arg[3])

(***************************************************************************)
(* Polynomials: arg is the polynomial (or bit-store) operated on and res   *)
(* the outcome of the operation pc names.                                  *)
(***************************************************************************)
MaxCoeffs == 5

MaxExp == 20

\* Every coefficient vector of at most MaxCoeffs bits, and vectors of one
\* word, one word and a bit, two words, and two words and a bit made of the
\* word patterns.
PolyInputs ==
    UNION {AllVecs(n) : n \in 0..MaxCoeffs}
        \cup {from_word(w, n) : w \in Patterns, n \in {W, W + 1, 2 * W, 2 * W + 1}}

InitPoly ==
    /\ v = new
    /\ pc = "start"
    /\ arg \in PolyInputs
    /\ res = Idle
    /\ rng = Idle
    /\ thr = Idle

Squared ==
    /\ pc = "start"
    /\ pc' = "squared"
    /\ res' = squared(arg)
    /\ UNCHANGED <<v, arg, rng, thr>>

SpecSquared == InitPoly /\ [][Squared]_vars

ConvolvedWith ==
    /\ pc = "start"
    /\ pc' = "convolved"
    /\ \E rhs \in PolyInputs : res' = [rhs |-> rhs, out |-> convolved_with(arg, rhs)]
    /\ UNCHANGED <<v, arg, rng, thr>>

SpecConvolved == InitPoly /\ [][ConvolvedWith]_vars

\* reduce_x_to_the asserts that the polynomial is not zero.
ReduceXToThe ==
    /\ pc = "start"
    /\ ~poly_is_zero(arg)
    /\ pc' = "reduced"
    /\ \E n \in 0..MaxExp : res' = [n |-> n, r |-> reduce_x_to_the(arg, n)]
    /\ UNCHANGED <<v, arg, rng, thr>>

SpecReduce == InitPoly /\ [][ReduceXToThe]_vars

\* The polynomial with coefficient vector s as the number with those bits.
RECURSIVE PolyNum(_, _)
PolyNum(s, i) == IF i >= len(s) THEN 0 ELSE (IF get(s, i) THEN 2^i ELSE 0) + PolyNum(s, i + 1)

\* x^n mod P for the polynomial with number P and degree d, one power of
\* x at a time.
RECURSIVE XPowMod(_, _, _)
XPowMod(n, P, d) ==
    IF n = 0 THEN 1
    ELSE LET t == 2 * XPowMod(n - 1, P, d)
         IN  IF t >= 2^d THEN BitXor(t, P) ELSE t

\* C6: for every polynomial P of degree at least 2 and every n >= 0,
\* r = P.reduce_x_to_the(n) has degree less than deg(P) and x^n + r is a
\* multiple of P, that is r is the remainder of x^n on division by P.
C6_ReduceXToThe ==
    (pc = "reduced" /\ degree(arg) >= 2) =>
        /\ degree(res.r) < degree(arg)
        /\ PolyNum(res.r, 0) = XPowMod(res.n, PolyNum(arg, 0), degree(arg))

\* x^19 reduced by a polynomial of degree 16 whose coefficients fill two words and a bit.
C6_Witness ==
    /\ pc = "reduced"
    /\ len(arg) = 2 * W + 1
    /\ degree(arg) = 2 * W
    /\ res.n = 19
    /\ any(res.r)

\* C7: for every bit-polynomial p, whatever the length of its coefficient
\* vector, p.squared() equals p.convolved_with(p).
C7_SquaredIsConvolved == pc = "squared" => res = poly_convolved_with(arg, arg)

\* Bit k of the convolution of the bit sequences x and y by its definition:
\* the sum mod 2 over every j with 0 <= k - j < Len(y) of x[j] * y[k - j]
\* (k and j count from 0).
NaiveConvolutionBit(x, y, k) ==
    SumMod2([j \in 1..Len(x) |->
                IF k - (j - 1) >= 0 /\ k - (j - 1) < Len(y) THEN x[j] * y[k - (j - 1) + 1] ELSE 0],
            1, Len(x))

\* C8: for bit-stores u of length m and v of length n, u.convolved_with(v)
\* is empty if either operand is empty, and otherwise has length m + n - 1
\* with bit k equal to the XOR over all valid j of (u[j] AND v[k - j]).
C8_Convolution ==
    pc = "convolved" =>
        IF len(arg) = 0 \/ len(res.rhs) = 0 THEN len(res.out) = 0
        ELSE /\ len(res.out) = len(arg) + len(res.rhs) - 1
             /\ \A k \in 0..(len(res.out) - 1) :
                    get(res.out, k) = (NaiveConvolutionBit(Bits(arg), Bits(res.rhs), k) = 1)

\* Operands of two words and a bit and of one word and a bit, the product
\* reaching into its last word.
C8_Witness ==
    /\ pc = "convolved"
    /\ len(arg) = 2 * W + 1
    /\ len(res.rhs) = W + 1
    /\ store_count_ones(arg) > 2
    /\ store_count_ones(res.rhs) > 2
    /\ len(res.out) = 3 * W + 1
    /\ get(res.out, 3 * W)

(***************************************************************************)
(* Threads on the shared generator.  rng is [state, owner]: the word of    *)
(* state and the thread holding the mutex (0 if none).  thr[t] is thread   *)
(* t: its role, the position pc of its program, where it is in its current *)
(* call on the generator (at: "out", "held" once it holds the lock,        *)
(* "added" inside next, "done" before the lock is released), the call's    *)
(* result z, and its locals.  arg is the state the generator started in.   *)
(***************************************************************************)
NumThreads == 2

MaxDraws == 2

FillLen == 2

Threads == 1..NumThreads

\* States the clock may have seeded the generator with.
InitialSeeds == {U64_ZERO, U64(\H0123, \H4567, \H89ab, \Hcdef)}

\* Seeds handed to the seeded constructor: zero stands for no seed.
ExplicitSeeds == {U64_ZERO, U64(0, 0, 0, 42)}

\* scaled_p for p = 0.5
SCALED_P == U64(\H8000, 0, 0, 0)

\* u64 < u64
less_than64(a, b) ==
    \E i \in 1..8 : a[i] < b[i] /\ \A j \in (i + 1)..8 : a[j] = b[j]

Drawer ==
    [role |-> "drawer", pc |-> "draw", at |-> "out", call |-> "none", z |-> U64_ZERO,
     out |-> <<>>, seed |-> U64_ZERO, old_seed |-> U64_ZERO, i |-> 0]

\* A thread inside fill_random_biased_seeded(0.5, seed).
Constructor(s) == [Drawer EXCEPT !.role = "constructor", !.pc = "save", !.seed = s]

InitDraws ==
    /\ v = new
    /\ pc = "rng"
    /\ arg \in InitialSeeds
    /\ res = Idle
    /\ rng = [state |-> arg, owner |-> 0]
    /\ thr = [t \in Threads |-> Drawer]

InitSeeded ==
    /\ v = ones(FillLen)
    /\ pc = "rng"
    /\ arg \in InitialSeeds
    /\ res = Idle
    /\ rng = [state |-> arg, owner |-> 0]
    /\ \E s \in ExplicitSeeds :
           thr = [t \in Threads |-> IF t = 1 THEN Constructor(s) ELSE Drawer]

\* The call on the generator the program of the thread makes next.
next_call(th) ==
    IF th.role = "drawer" THEN (IF Len(th.out) < MaxDraws THEN "u64" ELSE "none")
    ELSE CASE th.pc = "save"    -> "seed"
           [] th.pc = "reseed"  -> "set_seed"
           [] th.pc = "loop"    -> "u64"
           [] th.pc = "restore" -> "set_seed"
           [] OTHER             -> "none"

\* Where the seeded constructor stands, as another thread sees it.
phase ==
    IF thr[1].role # "constructor" THEN "none"
    ELSE IF thr[1].pc = "done" THEN "after"
    ELSE IF thr[1].pc \in {"loop", "restore"} /\ thr[1].seed # U64_ZERO THEN "window"
    ELSE "before"

\* RNG.lock(): the thread takes the mutex for its next call.
Lock(t) ==
    /\ thr[t].at = "out"
    /\ next_call(thr[t]) # "none"
    /\ lock_available(rng)
    /\ rng' = [rng EXCEPT !.owner = t]
    /\ thr' = [thr EXCEPT ![t].at = "held", ![t].call = next_call(thr[t])]
    /\ UNCHANGED <<v, pc, arg, res>>

\* next(), first statement.
NextAdd(t) ==
    /\ thr[t].at = "held"
    /\ thr[t].call = "u64"
    /\ rng' = [rng EXCEPT !.state = next_state(@)]
    /\ thr' = [thr EXCEPT ![t].at = "added"]
    /\ UNCHANGED <<v, pc, arg, res>>

\* next(), the rest.
NextMix(t) ==
    /\ thr[t].at = "added"
    /\ thr' = [thr EXCEPT ![t].at = "done", ![t].z = next_output(rng.state)]
    /\ UNCHANGED <<v, pc, arg, res, rng>>

\* rng::u64() returns to a drawing thread: the lock is released and the
\* value noted with the constructor's phase.
DrawReturn(t) ==
    /\ thr[t].at = "done"
    /\ thr[t].role = "drawer"
    /\ rng' = [rng EXCEPT !.owner = 0]
    /\ thr' = [thr EXCEPT ![t].at = "out",
                          ![t].out = Append(@, [val |-> thr[t].z, phase |-> phase])]
    /\ UNCHANGED <<v, pc, arg, res>>

NextDraws == \E t \in Threads : Lock(t) \/ NextAdd(t) \/ NextMix(t) \/ DrawReturn(t)

SpecDraws == InitDraws /\ [][NextDraws]_vars

\* seed() under the lock.
ReadSeed(t) ==
    /\ thr[t].at = "held"
    /\ thr[t].call = "seed"
    /\ thr' = [thr EXCEPT ![t].at = "done", ![t].z = seed(rng)]
    /\ UNCHANGED <<v, pc, arg, res, rng>>

\* set_seed() under the lock: the explicit seed on the way in, the saved one on the way out.
SetSeed(t) ==
    /\ thr[t].at = "held"
    /\ thr[t].call = "set_seed"
    /\ rng' = set_seed(rng, IF thr[t].pc = "reseed" THEN thr[t].seed ELSE thr[t].old_seed)
    /\ thr' = [thr EXCEPT ![t].at = "done"]
    /\ UNCHANGED <<v, pc, arg, res>>

\* The position after the loop over the bits.
after_loop(th) == IF th.seed # U64_ZERO THEN "restore" ELSE "done"

\* The position at the loop over the bits of a store of n bits.
at_loop(th, n) == IF n > 0 THEN "loop" ELSE after_loop(th)

\* old_seed = rng::seed() returns; without a seed the constructor goes on to
\* clear the store and starts the loop.
SeedSaved(t) ==
    /\ thr[t].at = "done"
    /\ thr[t].role = "constructor"
    /\ thr[t].pc = "save"
    /\ rng' = [rng EXCEPT !.owner = 0]
    /\ IF thr[t].seed # U64_ZERO
       THEN /\ thr' = [thr EXCEPT ![t].at = "out", ![t].old_seed = thr[t].z, ![t].pc = "reseed"]
            /\ v' = v
       ELSE /\ thr' = [thr EXCEPT ![t].at = "out", ![t].old_seed = thr[t].z,
                                  ![t].pc = at_loop(thr[t], len(v))]
            /\ v' = set_all(v, FALSE)
    /\ UNCHANGED <<pc, arg, res>>

\* rng::set_seed(seed) returns; the constructor clears the store and starts the loop.
Reseeded(t) ==
    /\ thr[t].at = "done"
    /\ thr[t].role = "constructor"
    /\ thr[t].pc = "reseed"
    /\ rng' = [rng EXCEPT !.owner = 0]
    /\ thr' = [thr EXCEPT ![t].at = "out", ![t].pc = at_loop(thr[t], len(v))]
    /\ v' = set_all(v, FALSE)
    /\ UNCHANGED <<pc, arg, res>>

\* rng::u64() returns inside the loop: bit i is set if the word is below scaled_p.
BitDrawn(t) ==
    /\ thr[t].at = "done"
    /\ thr[t].role = "constructor"
    /\ thr[t].pc = "loop"
    /\ rng' = [rng EXCEPT !.owner = 0]
    /\ thr' = [thr EXCEPT ![t].at = "out", ![t].i = @ + 1,
                          ![t].pc = IF thr[t].i + 1 < len(v) THEN "loop" ELSE after_loop(thr[t])]
    /\ v' = IF less_than64(thr[t].z, SCALED_P) THEN set(v, thr[t].i, TRUE) ELSE v
    /\ UNCHANGED <<pc, arg, res>>

\* rng::set_seed(old_seed) returns: the constructor is done.
Restored(t) ==
    /\ thr[t].at = "done"
    /\ thr[t].role = "constructor"
    /\ thr[t].pc = "restore"
    /\ rng' = [rng EXCEPT !.owner = 0]
    /\ thr' = [thr EXCEPT ![t].at = "out", ![t].pc = "done"]
    /\ UNCHANGED <<v, pc, arg, res>>

NextSeeded ==
    \E t \in Threads :
        \/ Lock(t) \/ NextAdd(t) \/ NextMix(t) \/ DrawReturn(t)
        \/ ReadSeed(t) \/ SetSeed(t)
        \/ SeedSaved(t) \/ Reseeded(t) \/ BitDrawn(t) \/ Restored(t)

SpecSeeded == InitSeeded /\ [][NextSeeded]_vars

\* The state of a generator seeded with s after n draws, on the pair
\* <<state, draws to go>>.
StateAfter(s, n) ==
    LET RECURSIVE loop(_)
        loop(st) == IF st[2] = 0 THEN st[1] ELSE loop(<<next_state(st[1]), st[2] - 1>>)
    IN  loop(<<s, n>>)

\* The n-th word of the stream of a generator seeded with s.
Stream(s, n) == next_output(StateAfter(s, n))

\* The first n words of the stream of a generator seeded with s, on the
\* pair <<words so far, state>>.
StreamTable(s, n) ==
    LET RECURSIVE loop(_)
        loop(st) == IF Len(st[1]) >= n THEN st[1]
                    ELSE loop(<<Append(st[1], next_output(next_state(st[2]))),
                                next_state(st[2])>>)
    IN  loop(<<<<>>, s>>)

\* The number of draws handed out, over the threads up to t.
RECURSIVE HandedOut(_)
HandedOut(t) == IF t = 0 THEN 0 ELSE Len(thr[t].out) + HandedOut(t - 1)

\* The number of draws inside next() past its first statement.
InFlight == Cardinality({t \in Threads : thr[t].call = "u64" /\ thr[t].at \in {"added", "done"}})

\* The place of the word w in the sequence of words table (0 if it has none).
IndexIn(table, w) ==
    IF \E i \in 1..Len(table) : table[i] = w
    THEN CHOOSE i \in 1..Len(table) : table[i] = w
    ELSE 0

\* C9: when several threads draw from the shared generator concurrently,
\* each draw is one complete split-mix64 step under the lock: the state has
\* advanced once for every draw begun (no update lost or applied twice),
\* and the words handed out are those of the stream from the initial state,
\* each once, in an order that agrees with the order of each thread's draws.
C9_SerializedDraws ==
    pc = "rng" /\ thr[1].role = "drawer" =>
        LET n     == HandedOut(NumThreads)
            table == StreamTable(arg, n + 1)
        IN  /\ Cardinality({t \in Threads : thr[t].at # "out"}) <= 1
            /\ rng.state = StateAfter(arg, n + InFlight)
            /\ \A t \in Threads : thr[t].at = "done" => thr[t].z = table[n + 1]
            /\ \A i \in 1..n :
                   Cardinality({tk \in Threads \X (1..MaxDraws) :
                                   /\ tk[2] <= Len(thr[tk[1]].out)
                                   /\ thr[tk[1]].out[tk[2]].val = table[i]}) = 1
            /\ \A t \in Threads : \A k \in 1..(Len(thr[t].out) - 1) :
                   IndexIn(table, thr[t].out[k].val) < IndexIn(table, thr[t].out[k + 1].val)

\* Two threads have drawn twice each, the draws of one between the draws of the other.
C9_Witness ==
    /\ pc = "rng"
    /\ thr[1].role = "drawer"
    /\ Len(thr[1].out) = 2
    /\ Len(thr[2].out) = 2
    /\ thr[2].out[1].val = Stream(arg, 1)
    /\ thr[1].out[1].val = Stream(arg, 2)
    /\ thr[1].out[2].val = Stream(arg, 3)
    /\ thr[2].out[2].val = Stream(arg, 4)

\* The words a generator seeded with s hands out first.
StreamOf(s) ==
    LET table == StreamTable(s, FillLen + NumThreads * MaxDraws)
    IN  {table[n] : n \in 1..Len(table)}

\* C10: the save-seed / reseed / draw / restore-seed sequence of a seeded
\* constructor is not atomic: a draw by another thread made while the
\* constructor runs between its reseed and its restore comes from the
\* explicit seed's stream, and that thread's draws after the constructor
\* completes come from the restored seed's stream.
C10_SeedWindow ==
    (pc = "rng" /\ thr[1].role = "constructor") =>
        LET explicit == StreamOf(thr[1].seed)
            restored == StreamOf(thr[1].old_seed)
        IN  \A t \in Threads : \A k \in 1..Len(thr[t].out) :
                /\ thr[t].out[k].phase = "window" => thr[t].out[k].val \in explicit
                /\ thr[t].out[k].phase = "after" => thr[t].out[k].val \in restored

\* The interleaving of interest: the other thread drew the first word of
\* the explicit seed's stream inside the constructor's window, and after
\* the constructor completed the first word of the restored seed's stream.
C10_Witness ==
    /\ pc = "rng"
    /\ thr[1].role = "constructor"
    /\ thr[1].pc = "done"
    /\ thr[1].seed # U64_ZERO
    /\ thr[1].seed # thr[1].old_seed
    /\ Len(thr[2].out) = 2
    /\ thr[2].out[1].phase = "window"
    /\ thr[2].out[1].val = Stream(thr[1].seed, 1)
    /\ thr[2].out[2].phase = "after"
    /\ thr[2].out[2].val = Stream(thr[1].old_seed, 1)

\* The draws handed out to the threads up to t after the seeded constructor
\* completed.
RECURSIVE DrawsAfter(_)
DrawsAfter(t) ==
    IF t = 0 THEN {}
    ELSE {thr[t].out[k].val : k \in {j \in 1..Len(thr[t].out) : thr[t].out[j].phase = "after"}}
         \cup DrawsAfter(t - 1)

\* No thread but the constructor has used the generator before the
\* constructor completed.
QuietCall ==
    \A t \in Threads : \A k \in 1..Len(thr[t].out) : thr[t].out[k].phase = "after"

\* C11: when a seeded fill called with a non-zero seed has returned, the
\* shared generator is back on the seed the call read when it began: the
\* state is that seed advanced once per draw made since the return, the
\* words drawn since are the first words of that seed's stream, and when no
\* other thread drew while the call ran that seed is the one the generator
\* had before the call, so the unseeded stream continues as if the call had
\* not happened.
C11_SeedRestored ==
    (pc = "rng" /\ thr[1].role = "constructor" /\ thr[1].pc = "done"
        /\ thr[1].seed # U64_ZERO) =>
        LET drawn == DrawsAfter(NumThreads)
            n     == Cardinality(drawn)
            table == StreamTable(thr[1].old_seed, n)
        IN  /\ rng.state = StateAfter(thr[1].old_seed, n + InFlight)
            /\ drawn = {table[i] : i \in 1..n}
            /\ QuietCall => thr[1].old_seed = arg
            /\ QuietCall /\ n > 0 => table[1] = Stream(arg, 1)

\* A seeded fill with seed 42 has returned and the other thread, which did
\* not draw before, has drawn the first two words of the stream of the seed
\* the generator started with.
C11_Witness ==
    /\ pc = "rng"
    /\ thr[1].role = "constructor"
    /\ thr[1].pc = "done"
    /\ thr[1].seed # U64_ZERO
    /\ arg # U64_ZERO
    /\ thr[1].i = FillLen
    /\ Len(thr[2].out) = 2
    /\ thr[2].out[1] = [val |-> Stream(arg, 1), phase |-> "after"]
    /\ thr[2].out[2] = [val |-> Stream(arg, 2), phase |-> "after"]

(***************************************************************************)
(* Mutable bit-slices over backing words.  v holds the backing words, arg  *)
(* the bit range [start, end) of the slice and the operation applied to    *)
(* it, res the backing words before the operation.                         *)
(***************************************************************************)
\* Number of backing words under a mutable slice.
BackingWords == 3

\* Contents of the backing words before the slice is taken.
BackingPatterns == {<<0, 0, 0>>, <<MAXW, MAXW, MAXW>>, <<165, 60, 150>>}

\* Words written by set_word.
WordValues == {0, MAXW, 90}

RECURSIVE Backing(_, _)
Backing(p, n) == IF n = 0 THEN <<>> ELSE Append(Backing(p, n - 1), p[((n - 1) % 3) + 1])

InitSlice ==
    /\ v \in {[m_len |-> W * BackingWords, m_store |-> Backing(p, BackingWords)] :
                 p \in BackingPatterns}
    /\ pc = "slice"
    /\ arg = Idle
    /\ res = Idle
    /\ rng = Idle
    /\ thr = Idle

\* BitSlice::new_mut(words, start, end) followed by set_word(i, value).
SliceSetWord ==
    /\ pc = "slice"
    /\ \E start \in 0..(len(v) - 1) : \E end \in (start + 1)..len(v) :
       \E i \in 0..(words_needed(end - start) - 1) : \E value \in WordValues :
           /\ arg' = [op |-> "set_word", start |-> start, end |-> end, i |-> i, value |-> value]
           /\ v' = unslice(v, set_word(slice(v, start, end), i, value))
    /\ res' = v
    /\ pc' = "done"
    /\ UNCHANGED <<rng, thr>>

\* BitSlice::new_mut(words, start, end) followed by <<= shift.
SliceLeftShift ==
    /\ pc = "slice"
    /\ \E start \in 0..(len(v) - 1) : \E end \in (start + 1)..len(v) :
       \E shift \in 0..(end - start + 1) :
           /\ arg' = [op |-> "left_shift", start |-> start, end |-> end, shift |-> shift]
           /\ v' = unslice(v, left_shift(slice(v, start, end), shift))
    /\ res' = v
    /\ pc' = "done"
    /\ UNCHANGED <<rng, thr>>

\* BitSlice::new_mut(words, start, end) followed by >>= shift.
SliceRightShift ==
    /\ pc = "slice"
    /\ \E start \in 0..(len(v) - 1) : \E end \in (start + 1)..len(v) :
       \E shift \in 0..(end - start + 1) :
           /\ arg' = [op |-> "right_shift", start |-> start, end |-> end, shift |-> shift]
           /\ v' = unslice(v, right_shift(slice(v, start, end), shift))
    /\ res' = v
    /\ pc' = "done"
    /\ UNCHANGED <<rng, thr>>

NextSlice == SliceSetWord \/ SliceLeftShift \/ SliceRightShift

SpecSlice == InitSlice /\ [][NextSlice]_vars

\* Bit j of a sequence of backing words.
BackingBit(st, j) == BitOf(At(st, j \div W), j % W)

\* C12: set_word and the in-place shifts on a mutable bit-slice leave every
\* backing bit outside the slice's range [start, end) as it was (and the
\* number of backing words with it).
C12_SliceFrame ==
    pc = "done" /\ arg # Idle /\ "start" \in DOMAIN arg =>
        /\ Len(v.m_store) = Len(res.m_store)
        /\ \A j \in 0..(W * Len(res.m_store) - 1) :
               (j < arg.start \/ j >= arg.end) =>
                   BackingBit(v.m_store, j) = BackingBit(res.m_store, j)

\* set_word(0, 0xff) on the slice [5, 10) of zeroed words: the five bits of
\* the slice, which straddle two backing words, are set and no other.
C12_Witness ==
    /\ pc = "done"
    /\ arg = [op |-> "set_word", start |-> 5, end |-> 10, i |-> 0, value |-> MAXW]
    /\ res.m_store = <<0, 0, 0>>
    /\ v.m_store = <<224, 3, 0>>

(***************************************************************************)
(* Queries on a store.  arg is the store (a bit-vector, or a slice of      *)
(* backing words), res the query made and its answer.                      *)
(***************************************************************************)
\* Every bit-vector of at most MaxBits bits is a query operand.
MaxBits == 9

\* Bit-vectors of two words less a bit, two words, and two words and a
\* bit made of the word patterns.
LongVecs ==
    {clean([m_len |-> n, m_store |-> <<a, b, c>>]) :
        a \in Patterns, b \in Patterns, c \in {1}, n \in {2 * W + 1}}
    \cup {clean([m_len |-> n, m_store |-> <<a, b>>]) :
             a \in Patterns, b \in Patterns, n \in {2 * W - 1, 2 * W}}

\* Slices that do not start on a word boundary.
UnalignedSlices ==
    {slice([m_len |-> 3 * W, m_store |-> p], start, end) :
        p \in BackingPatterns, start \in {3, W - 1}, end \in {W, 2 * W - 1, 2 * W + 3, 3 * W}}

\* The words of a store of n bits whose bits are the binary digits of x,
\* lowest first.
RECURSIVE NumberWords(_, _)
NumberWords(x, n) ==
    IF n <= 0 THEN <<>> ELSE <<x % 2^W>> \o NumberWords(x \div 2^W, n - W)

\* All bit-vectors of n bits.
BitVecs(n) == {[m_len |-> n, m_store |-> NumberWords(x, n)] : x \in 0..(2^n - 1)}

StoreInputs == UNION {BitVecs(n) : n \in 0..MaxBits} \cup LongVecs \cup UnalignedSlices

InitStore ==
    /\ v = new
    /\ pc = "start"
    /\ arg \in StoreInputs
    /\ res = Idle
    /\ rng = Idle
    /\ thr = Idle

\* The query op with operand i is answered with out.
Answer(op, i, out) ==
    /\ pc = "start"
    /\ pc' = "done"
    /\ res' = [op |-> op, i |-> i, out |-> out]
    /\ UNCHANGED <<v, arg, rng, thr>>

FirstSet == Answer("first_set", 0, first_set(arg))

LastSet == Answer("last_set", 0, last_set(arg))

NextSet == \E i \in 0..(len(arg) + 1) : Answer("next_set", i, next_set(arg, i))

PreviousSet == \E i \in 0..(len(arg) + 1) : Answer("previous_set", i, previous_set(arg, i))

FirstUnset == Answer("first_unset", 0, first_unset(arg))

LastUnset == Answer("last_unset", 0, last_unset(arg))

NextUnset == \E i \in 0..(len(arg) + 1) : Answer("next_unset", i, next_unset(arg, i))

PreviousUnset ==
    \E i \in 0..(len(arg) + 1) : Answer("previous_unset", i, previous_unset(arg, i))

NextScan ==
    \/ FirstSet \/ LastSet \/ NextSet \/ PreviousSet
    \/ FirstUnset \/ LastUnset \/ NextUnset \/ PreviousUnset

SpecScan == InitStore /\ [][NextScan]_vars

\* The positions from lo to hi of the store that hold the bit b.
Holding(s, b, lo, hi) == {j \in lo..hi : j >= 0 /\ j < len(s) /\ get(s, j) = b}

\* The least and the greatest of a set of positions (-1 if there is none).
Least(S) == IF S = {} THEN -1 ELSE CHOOSE j \in S : \A k \in S : j <= k

Greatest(S) == IF S = {} THEN -1 ELSE CHOOSE j \in S : \A k \in S : j >= k

\* What a scan bit by bit answers to the query op with operand i.
LinearScan(s, op, i) ==
    CASE op = "first_set"      -> Least(Holding(s, TRUE, 0, len(s) - 1))
      [] op = "last_set"       -> Greatest(Holding(s, TRUE, 0, len(s) - 1))
      [] op = "next_set"       -> Least(Holding(s, TRUE, i + 1, len(s) - 1))
      [] op = "previous_set"   -> Greatest(Holding(s, TRUE, 0, i - 1))
      [] op = "first_unset"    -> Least(Holding(s, FALSE, 0, len(s) - 1))
      [] op = "last_unset"     -> Greatest(Holding(s, FALSE, 0, len(s) - 1))
      [] op = "next_unset"     -> Least(Holding(s, FALSE, i + 1, len(s) - 1))
      [] op = "previous_unset" -> Greatest(Holding(s, FALSE, 0, i - 1))

ScanOps ==
    {"first_set", "last_set", "next_set", "previous_set",
     "first_unset", "last_unset", "next_unset", "previous_unset"}

\* C13: first_set, last_set, next_set(i), previous_set(i) and their unset
\* analogues answer what a scan bit by bit answers, for every store and
\* every index i, and no answer is a position at or beyond len.
C13_ScansAgree ==
    pc = "done" /\ res.op \in ScanOps =>
        /\ res.out = LinearScan(arg, res.op, res.i)
        /\ res.out < len(arg)

\* next_unset(W) on a vector of two words less a bit whose bits from W + 1
\* on are all set: the unused bit of the final word is not reported.
C13_Witness ==
    /\ pc = "done"
    /\ res.op = "next_unset"
    /\ res.i = W
    /\ len(arg) = 2 * W - 1
    /\ ~IsSlice(arg)
    /\ arg.m_store[2] = 2^(W - 1) - 1
    /\ res.out = -1

All == Answer("all", 0, all(arg))

TrailingZeros == Answer("trailing_zeros", 0, trailing_zeros(arg))

NextCount == All \/ TrailingZeros

SpecCount == InitStore /\ [][NextCount]_vars

\* C14: all() is true exactly when every one of the len bits of the store
\* is 1 (so true of the empty store), whatever the length.
C14_All ==
    pc = "done" /\ res.op = "all" =>
        res.out = (\A j \in 0..(len(arg) - 1) : get(arg, j))

\* The number of zero bits at the high-index end of the store.
TrailingZeroBits(s) == len(s) - 1 - Greatest(Holding(s, TRUE, 0, len(s) - 1))

\* C15: trailing_zeros() is the number of consecutive zero bits at the
\* high-index end of the store (len if no bit is set), whatever the length.
C15_TrailingZeros ==
    pc = "done" /\ res.op = "trailing_zeros" => res.out = TrailingZeroBits(arg)

(***************************************************************************)
(* Shifts of a store.  arg is the store, res the shifts made and what      *)
(* they left: the store shifted by k, that shifted again by m, and the     *)
(* store shifted by k + m.                                                 *)
(***************************************************************************)
\* Every bit-vector of at most MaxShiftBits bits is shifted.
MaxShiftBits == 6

ShiftInputs == UNION {BitVecs(n) : n \in 0..MaxShiftBits} \cup LongVecs \cup UnalignedSlices

InitShift ==
    /\ v = new
    /\ pc = "start"
    /\ arg \in ShiftInputs
    /\ res = Idle
    /\ rng = Idle
    /\ thr = Idle

\* v <<= k; v <<= m, beside v <<= k + m.
ShiftLeft ==
    /\ pc = "start"
    /\ pc' = "done"
    /\ \E k \in 0..(len(arg) + 1) : \E m \in 0..(len(arg) + 1) :
           res' = [op |-> "left_shift", k |-> k, m |-> m,
                   once  |-> left_shift(arg, k),
                   twice |-> left_shift(left_shift(arg, k), m),
                   sum   |-> left_shift(arg, k + m)]
    /\ UNCHANGED <<v, arg, rng, thr>>

\* v >>= k; v >>= m, beside v >>= k + m.
ShiftRight ==
    /\ pc = "start"
    /\ pc' = "done"
    /\ \E k \in 0..(len(arg) + 1) : \E m \in 0..(len(arg) + 1) :
           res' = [op |-> "right_shift", k |-> k, m |-> m,
                   once  |-> right_shift(arg, k),
                   twice |-> right_shift(right_shift(arg, k), m),
                   sum   |-> right_shift(arg, k + m)]
    /\ UNCHANGED <<v, arg, rng, thr>>

NextShift == ShiftLeft \/ ShiftRight

SpecShift == InitShift /\ [][NextShift]_vars

\* Bit i of the store s shifted by k in vector order: to the left bit i + k
\* comes to position i, to the right bit i - k, and zeros come in.
ShiftedBit(s, op, k, i) ==
    IF op = "left_shift" THEN i + k < len(s) /\ get(s, i + k)
    ELSE i >= k /\ get(s, i - k)

\* C16: a left shift by k in vector order moves bit i + k to position i and
\* fills the vacated high positions with zeros (a right shift moves bit
\* i - k to position i and fills the low positions), the length is kept, so
\* shifting by k and then by m is shifting by k + m whenever k + m <= len,
\* and a shift by len or more leaves every bit zero.
C16_Shifts ==
    pc = "done" /\ res.op \in {"left_shift", "right_shift"} =>
        /\ len(res.once) = len(arg)
        /\ \A i \in 0..(len(arg) - 1) : get(res.once, i) = ShiftedBit(arg, res.op, res.k, i)
        /\ res.k + res.m <= len(arg) => res.twice = res.sum
        /\ res.k >= len(arg) => \A i \in 0..(len(arg) - 1) : ~get(res.once, i)

\* Sixteen set bits shifted left by 3 and then by a whole word: the five
\* lowest bits are left set, as after one shift by W + 3.
C16_Witness ==
    /\ pc = "done"
    /\ res.op = "left_shift"
    /\ arg = [m_len |-> 2 * W, m_store |-> <<MAXW, MAXW>>]
    /\ res.k = 3
    /\ res.m = W
    /\ res.once.m_store = <<MAXW, 2^(W - 3) - 1>>
    /\ res.twice.m_store = <<2^(W - 3) - 1, 0>>
    /\ res.sum = res.twice

(***************************************************************************)
(* copy_store across word widths.  arg is the copy made: the widths of     *)
(* the destination and source words, the source store and the              *)
(* destination before the copy; res is the destination after it.           *)
(***************************************************************************)
\* Word::BITS of the u16 instantiation of the Unsigned trait.
WIDE == 16

\* Longest store copied.
MaxCopyBits == 34

\* Bit patterns that repeat with a period no word width divides.
BitPatterns == {<<0>>, <<1>>, <<1, 0, 1>>, <<1, 1, 0, 1, 0, 0, 0>>}

\* The words of b bits of a store of n bits that holds the pattern p, from
\* word i on.
RECURSIVE PatternWords(_, _, _, _)
PatternWords(b, p, n, i) ==
    IF i * b >= n THEN <<>>
    ELSE LET RECURSIVE value(_)
             value(j) == IF j >= b \/ i * b + j >= n THEN 0
                         ELSE p[((i * b + j) % Len(p)) + 1] * 2^j + value(j + 1)
         IN  <<value(0)>> \o PatternWords(b, p, n, i + 1)

\* The bit-vector of n bits in words of b bits that holds the pattern p.
PatternVec(b, p, n) == [m_len |-> n, m_store |-> PatternWords(b, p, n, 0)]

\* BitSlice::new over words of b bits.
slice_of(b, self, start, end) ==
    [m_store  |-> self.m_store,
     m_ptr    |-> start \div b,
     m_offset |-> start % b,
     m_len    |-> end - start,
     m_words  |-> div_ceil(end - start, b)]

\* Sources in words of b bits: bit-vectors, and slices that start inside a word.
CopySources(b) ==
    {PatternVec(b, p, n) : p \in BitPatterns, n \in 0..MaxCopyBits}
    \cup {slice_of(b, PatternVec(b, p, 3 * b), start, end) :
             p \in BitPatterns, start \in {3, b - 1, b + 5},
             end \in {b + 6, 2 * b - 1, 2 * b, 2 * b + 3, 3 * b}}

InitCopy ==
    /\ v = new
    /\ pc = "start"
    /\ arg \in UNION {{[dw |-> dw, sw |-> sw, src |-> src,
                          dst |-> PatternVec(dw, fill, len(src))] :
                            dw \in {W, WIDE}, src \in CopySources(sw),
                            fill \in {<<0>>, <<1>>}} : sw \in {W, WIDE}}
    /\ res = Idle
    /\ rng = Idle
    /\ thr = Idle

\* dst.copy_store(&src)
CopyStoreAcross ==
    /\ pc = "start"
    /\ len(arg.dst) = len(arg.src)
    /\ pc' = "done"
    /\ res' = copy_store_of(arg.dw, arg.dst, arg.sw, arg.src)
    /\ UNCHANGED <<v, arg, rng, thr>>

SpecCopy == InitCopy /\ [][CopyStoreAcross]_vars

\* Bit i of a store of words of b bits.
get_of(b, s, i) == BitOf(word_of(b, s, i \div b), i % b) = 1

\* C17: dst.copy_store(src) on stores of equal length leaves dst[i] = src[i]
\* for every i (and the length of dst as it was), whatever the word widths
\* of the two stores, also when src is a slice that starts inside a word.
C17_CopyStore ==
    pc = "done" =>
        /\ len(res) = len(arg.src)
        /\ \A i \in 0..(len(arg.src) - 1) :
               get_of(arg.dw, res, i) = get_of(arg.sw, arg.src, i)

\* A slice of narrow words that starts at bit 3 and runs over three of
\* them is copied into a vector of wide words that held ones.
C17_Witness ==
    /\ pc = "done"
    /\ arg.dw = WIDE
    /\ arg.sw = W
    /\ IsSlice(arg.src)
    /\ arg.src.m_offset = 3
    /\ len(arg.src) = 2 * W
    /\ arg.src.m_store = PatternWords(W, <<1, 1, 0, 1, 0, 0, 0>>, 3 * W, 0)
    /\ arg.dst.m_store = <<2^WIDE - 1>>
    /\ res.m_store = <<22705>>

(***************************************************************************)
(* Strings of a bit-vector and the bit-vectors read back from them.        *)
(***************************************************************************)
\* The bit-vectors among the query operands.
VecInputs == {s \in StoreInputs : ~IsSlice(s)}

InitStrings ==
    /\ v = new
    /\ pc = "start"
    /\ arg \in VecInputs
    /\ res = Idle
    /\ rng = Idle
    /\ thr = Idle

\* BitVec::from_binary_string(&v.to_binary_string())
BinaryRoundTrip ==
    /\ pc = "start"
    /\ pc' = "done"
    /\ res' = [op |-> "binary", str |-> to_binary_string(arg),
               out |-> from_binary_string(to_binary_string(arg))]
    /\ UNCHANGED <<v, arg, rng, thr>>

\* BitVec::from_hex_string(&v.to_hex_string())
HexRoundTrip ==
    /\ pc = "start"
    /\ pc' = "done"
    /\ res' = [op |-> "hex", str |-> to_hex_string(arg),
               out |-> from_hex_string(to_hex_string(arg))]
    /\ UNCHANGED <<v, arg, rng, thr>>

NextStrings == BinaryRoundTrip \/ HexRoundTrip

SpecStrings == InitStrings /\ [][NextStrings]_vars

\* C18: for every bit-vector v, whatever its length, reading back its
\* binary string and reading back its hex string both give Some(v).
C18_StringRoundTrip ==
    pc = "done" /\ res.op \in {"binary", "hex"} => res.out = Some(arg)

\* A vector of two words and a bit goes through the hex string with the
\* suffix for a last digit of one bit.
C18_Witness ==
    /\ pc = "done"
    /\ res.op = "hex"
    /\ arg = [m_len |-> 2 * W + 1, m_store |-> <<MAXW, ALTERNATING, 1>>]
    /\ res.str = <<"F", "F", "A", "A", "1", ".", "2">>
    /\ res.out = Some(arg)

(***************************************************************************)
(* Sums of polynomials and their values at a bit.  arg is the polynomial,  *)
(* res the operation: its operand, whether the build checks arithmetic for *)
(* overflow, whether the call panicked, and what it left or returned.      *)
(***************************************************************************)
\* p.plus_eq(&rhs)
PlusEq ==
    /\ pc = "start"
    /\ pc' = "done"
    /\ \E rhs \in PolyInputs : \E overflow_checks \in BOOLEAN :
           res' = [op |-> "plus_eq", rhs |-> rhs, overflow_checks |-> overflow_checks,
                   panicked |-> overflow_checks /\ plus_eq_asks_monic(arg, rhs)
                                    /\ is_monic_overflows(rhs),
                   out |-> plus_eq(arg, rhs)]
    /\ UNCHANGED <<v, arg, rng, thr>>

\* p.eval_bool(x)
EvalBool ==
    /\ pc = "start"
    /\ pc' = "done"
    /\ \E x \in BOOLEAN : \E overflow_checks \in BOOLEAN :
           res' = [op |-> "eval_bool", x |-> x, overflow_checks |-> overflow_checks,
                   panicked |-> overflow_checks /\ eval_bool_asks_monic(arg, x)
                                    /\ is_monic_overflows(arg),
                   out |-> eval_bool(arg, x)]
    /\ UNCHANGED <<v, arg, rng, thr>>

NextPolyArith == PlusEq \/ EvalBool

SpecPolyArith == InitPoly /\ [][NextPolyArith]_vars

\* Coefficient i of the polynomial with coefficient vector s.
CoeffOf(s, i) == i < len(s) /\ get(s, i)

\* C19: p.plus_eq(q) leaves p the sum of the two polynomials over GF(2):
\* coefficient i is p_i XOR q_i for every i, whatever the lengths of the
\* two coefficient vectors and their high-order zero coefficients.
C19_PlusEq ==
    pc = "done" /\ res.op = "plus_eq" =>
        /\ ~res.panicked
        /\ \A i \in 0..(Max(Max(len(arg), len(res.rhs)), len(res.out)) - 1) :
               CoeffOf(res.out, i) = (CoeffOf(arg, i) # CoeffOf(res.rhs, i))

\* C20: eval_bool(false) is coefficient 0 and eval_bool(true) the parity of
\* the number of set coefficients, whatever the length of the coefficient
\* vector.
C20_EvalBool ==
    pc = "done" /\ res.op = "eval_bool" =>
        /\ ~res.panicked
        /\ res.out = IF res.x THEN store_count_ones(arg) % 2 = 1 ELSE CoeffOf(arg, 0)

(***************************************************************************)
(* BitLU queries (src/lu.rs): rank, is_singular, P, swaps,                 *)
(* permutation_vector, permute_vector and x.  Each action applies one of   *)
(* them to the decomposition of arg.                                       *)
(***************************************************************************)
lu_rank(lu) == lu.rank

is_singular(lu) == lu.rank < rows(lu.LU)

swaps(lu) == lu.swaps

\* P(): the identity with the recorded row swaps applied in turn.
P(lu) ==
    LET RECURSIVE loop(_)
        loop(st) == IF st[2] >= rows(lu.LU) THEN st[1]
                    ELSE loop(<<swap_rows(st[1], st[2], At(lu.swaps, st[2])), st[2] + 1>>)
    IN  loop(<<identity(rows(lu.LU)), 0>>)

\* sort_by_key is a stable sort: the indices in S in ascending order of
\* key, equal keys in ascending order of index.
RECURSIVE sort_by_key(_, _)
sort_by_key(S, key) ==
    IF S = {} THEN <<>>
    ELSE LET first == CHOOSE i \in S :
                          \A k \in S : At(key, i) < At(key, k)
                                       \/ (At(key, i) = At(key, k) /\ i <= k)
         IN  <<first>> \o sort_by_key(S \ {first}, key)

permutation_vector(lu) == sort_by_key(0..(rows(lu.LU) - 1), lu.swaps)

\* The permutation of b left out.
permute_vector_skipped(lu, b) == b

permute_vector(lu, b) ==
    LET RECURSIVE loop(_)
        loop(st) == IF st[2] >= len(b) THEN st[1]
                    ELSE loop(<<swap(st[1], st[2], At(lu.swaps, st[2])), st[2] + 1>>)
    IN  loop(<<b, 0>>)

\* x(b): forward substitution with L, then backward substitution with U.
\* Within column range from..to-1, x[i] becomes x[i] + x[j] wherever
\* LU[i][j] is set.
lu_substitute(lu, x0, i, from, to) ==
    LET RECURSIVE loop(_)
        loop(st) ==
            IF st[2] >= to THEN st[1]
            ELSE loop(<<IF mat_get(lu.LU, i, st[2])
                        THEN set(st[1], i, get(st[1], i) # get(st[1], st[2]))
                        ELSE st[1],
                        st[2] + 1>>)
    IN  loop(<<x0, from>>)

lu_x(lu, b) ==
    LET n == rows(lu.LU)
        RECURSIVE forward(_)
        forward(st) == IF st[2] >= n THEN st[1]
                       ELSE forward(<<lu_substitute(lu, st[1], st[2], 0, st[2]), st[2] + 1>>)
        RECURSIVE backward(_)
        backward(st) == IF st[2] < 0 THEN st[1]
                        ELSE backward(<<lu_substitute(lu, st[1], st[2], st[2] + 1, n),
                                        st[2] - 1>>)
    IN  IF is_singular(lu) THEN None
        ELSE Some(backward(<<forward(<<permute_vector(lu, b), 0>>), n - 1>>))

LuRank ==
    /\ pc = "lu"
    /\ pc' = "lu_rank"
    /\ res' = [lu |-> res, rank |-> lu_rank(res)]
    /\ UNCHANGED <<v, arg, rng, thr>>

LuPermutation ==
    /\ pc = "lu"
    /\ pc' = "lu_permutation"
    /\ res' = [lu |-> res, P |-> P(res), swaps |-> swaps(res),
               permutation_vector |-> permutation_vector(res)]
    /\ UNCHANGED <<v, arg, rng, thr>>

LuX ==
    /\ pc = "lu"
    /\ pc' = "lu_x"
    /\ \E b \in AllVecs(rows(arg)) : res' = [lu |-> res, b |-> b, x |-> lu_x(res, b)]
    /\ UNCHANGED <<v, arg, rng, thr>>

NextLuQueries == LuDecompose \/ LuRank \/ LuPermutation \/ LuX

SpecLuQueries == InitMat /\ [][NextLuQueries]_vars

\* A is singular: some non-zero vector is sent to zero.
Singular(A) ==
    \E y \in AllVecs(rows(A)) :
        any(y) /\ \A i \in 1..rows(A) : MatVec(MatBits(A), Bits(y))[i] = 0

\* C21: x(b) returns None exactly when A is singular, and otherwise a
\* vector x with A.x = b.
C21_LuSolves ==
    pc = "lu_x" =>
        /\ (res.x = None) <=> Singular(arg)
        /\ res.x # None =>
               /\ MatVec(MatBits(arg), Bits(res.x[1])) = Bits(res.b)
               /\ mat_dot(arg, res.x[1]) = res.b

\* A non-singular 3 x 3 system whose decomposition swapped rows and whose
\* solution differs from b.
C21_Witness ==
    /\ pc = "lu_x"
    /\ rows(arg) = 3
    /\ res.x # None
    /\ \E j \in 0..2 : At(res.lu.swaps, j) # j
    /\ res.x[1] # res.b
    /\ any(res.b)

\* The number of pivots row-echelon reduction finds in A.
EchelonRank(A) == store_count_ones(to_echelon_form(A)[2])

\* The number of independent rows of A: log2 of the size of its row space.
RowSpace(A) ==
    {[j \in 1..cols(A) |->
         SumMod2([k \in 1..rows(A) |-> c[k] * MatBits(A)[k][j]], 1, rows(A))] :
     c \in [1..rows(A) -> {0, 1}]}

\* C22: BitLU::new(A).rank() equals the rank of A over GF(2), the number of
\* pivots found by row-echelon reduction of A, for every square A.
C22_Rank ==
    pc = "lu_rank" =>
        /\ res.rank = EchelonRank(arg)
        /\ 2^(res.rank) = Cardinality(RowSpace(arg))

\* C23: entry i of permutation_vector() is the column of the single 1 in
\* row i of P(), the matrix that swaps() encodes.
C23_PermutationVector ==
    pc = "lu_permutation" =>
        \A i \in 0..(rows(arg) - 1) :
            \A j \in 0..(rows(arg) - 1) :
                mat_get(res.P, i, j) <=> At(res.permutation_vector, i) = j

(***************************************************************************)
(* BitGauss queries (src/gauss.rs) over systems A.x = b: every system up   *)
(* to MaxDense unknowns, and sparse systems of up to USIZE_BITS + 1        *)
(* unknowns, whose free variables outnumber the bits of a usize.           *)
(***************************************************************************)
gauss_rank(g) == g.rank

free_count(g) == Len(g.free)

solution_count(g) == g.solution_count

\* Largest dimension at which every matrix is explored.
MaxDense == 2

\* Rows with entries in the first and last column only.
SparseRows(n) == {zeros(n), unit(0, n), unit(n - 1, n), set(unit(0, n), n - 1, TRUE)}

\* Matrices that are zero outside their first two rows and their last row.
SparseMatrices(n) ==
    {<<r0, r1>> \o Repeat(zeros(n), n - 3) \o <<r2>> :
         r0 \in SparseRows(n), r1 \in SparseRows(n), r2 \in SparseRows(n)}

Systems ==
    UNION {{[A |-> A, b |-> b] : A \in [1..n -> AllVecs(n)], b \in AllVecs(n)} :
           n \in 1..MaxDense}
    \cup
    UNION {{[A |-> A, b |-> b] : A \in SparseMatrices(n),
                                  b \in {zeros(n), unit(0, n), unit(1, n), unit(n - 1, n)}} :
           n \in 3..(USIZE_BITS + 1)}

InitSystems ==
    /\ v = new
    /\ pc = "start"
    /\ arg \in Systems
    /\ res = Idle
    /\ rng = Idle
    /\ thr = Idle

GaussSolver ==
    /\ pc = "start"
    /\ pc' = "gauss"
    /\ res' = BitGauss_new(arg.A, arg.b)
    /\ UNCHANGED <<v, arg, rng, thr>>

SolutionCount ==
    /\ pc = "gauss"
    /\ pc' = "solution_count"
    /\ res' = [g |-> res, rank |-> gauss_rank(res), free_count |-> free_count(res),
               solution_count |-> solution_count(res)]
    /\ UNCHANGED <<v, arg, rng, thr>>

NextSystems == GaussSolver \/ SolutionCount

SpecSystems == InitSystems /\ [][NextSystems]_vars

\* The columns in which A has an entry.
Support(A) == {j \in 1..cols(A) : \E i \in 1..rows(A) : MatBits(A)[i][j] = 1}

\* A.x = b has a solution.  Unknowns outside the support of A play no part,
\* so the search is over the vectors that vanish outside it.
Solvable(A, b) ==
    \E S \in SUBSET Support(A) :
        MatVec(MatBits(A), [j \in 1..cols(A) |-> IF j \in S THEN 1 ELSE 0]) = Bits(b)

\* C24: solution_count() is 0 exactly when A.x = b has no solution, and
\* otherwise min(2^f, 2^(usize::BITS - 1)) with f = free_count() = n - rank().
C24_SolutionCount ==
    pc = "solution_count" =>
        /\ res.free_count = rows(arg.A) - res.rank
        /\ (res.solution_count = 0) <=> ~Solvable(arg.A, arg.b)
        /\ Solvable(arg.A, arg.b) =>
               res.solution_count = Min(2^(res.free_count), 2^(USIZE_BITS - 1))

\* A solvable system with more free variables than a usize has bits and a
\* non-zero right-hand side: the count is capped.
C24_Witness ==
    /\ pc = "solution_count"
    /\ res.free_count >= USIZE_BITS
    /\ res.rank > 0
    /\ any(arg.b)
    /\ res.solution_count = 2^(USIZE_BITS - 1)

\* C25: xi(i) returns None when the system is inconsistent or when i is
\* not below solution_count().
C25_XiOutOfBounds ==
    (/\ pc = "gauss_xi"
     /\ ~is_consistent(res.g) \/ res.i >= solution_count(res.g))
    => res.x = None

(***************************************************************************)
(* Parsing (src/vec.rs): arg is a string and each action hands it to one   *)
(* of the three parsers.                                                   *)
(***************************************************************************)
has_prefix(s, c0, c1) == Len(s) >= 2 /\ s[1] = c0 /\ s[2] = c1

from_string(s) ==
    IF s = <<>> THEN Some(new)
    ELSE IF has_prefix(s, "0", "b") THEN from_binary_string(without_prefix(s, "0", "b"))
    ELSE IF has_prefix(s, "0", "x") THEN from_hex_string(without_prefix(s, "0", "x"))
    ELSE IF has_prefix(s, "0", "X") THEN from_hex_string(without_prefix(s, "0", "X"))
    ELSE IF \A i \in 1..Len(s) : s[i] \in {"0", "1"} THEN from_binary_string(s)
    ELSE from_hex_string(s)

\* Longest string parsed.
MaxChars == 3

\* Binary and hex digits, the letters of the prefixes, a separator, the
\* dot and a base of the suffix, and a character of no encoding.
Characters == {"0", "1", "A", "b", "x", "_", ".", "2", "G"}

Strings == UNION {[1..n -> Characters] : n \in 0..MaxChars}

InitParse ==
    /\ v = new
    /\ pc = "start"
    /\ arg \in Strings
    /\ res = Idle
    /\ rng = Idle
    /\ thr = Idle

Parsed(op, out) ==
    /\ pc = "start"
    /\ pc' = "parsed"
    /\ res' = [op |-> op, out |-> out]
    /\ UNCHANGED <<v, arg, rng, thr>>

FromString == Parsed("from_string", from_string(arg))

FromBinaryString == Parsed("from_binary_string", from_binary_string(arg))

FromHexString == Parsed("from_hex_string", from_hex_string(arg))

NextParse == FromString \/ FromBinaryString \/ FromHexString

SpecParse == InitParse /\ [][NextParse]_vars

\* The digits written by s once the separators are taken out.
DigitsOf(s) == SelectSeq(s, LAMBDA c : c \notin {" ", ",", "_"})

IsBinaryEncoding(s) ==
    \A i \in 1..Len(DigitsOf(s)) : DigitsOf(s)[i] \in {"0", "1"}

\* Hex digits, the last of which may be followed by the suffix naming its
\* base and is then a digit of that base.
IsHexEncoding(s) ==
    \/ s = <<>>
    \/ /\ Len(DigitsOf(s)) >= 1
       /\ \A i \in 1..Len(DigitsOf(s)) : to_digit(DigitsOf(s)[i], 16) # -1
    \/ /\ Len(s) >= 2
       /\ s[Len(s) - 1] = "."
       /\ s[Len(s)] \in {"2", "4", "8"}
       /\ LET body == DigitsOf(SubSeq(s, 1, Len(s) - 2))
              base == to_digit(s[Len(s)], 16)
          IN  /\ Len(body) >= 1
              /\ \A i \in 1..Len(body) : to_digit(body[i], 16) # -1
              /\ to_digit(body[Len(body)], base) # -1

Unprefixed(s) ==
    IF has_prefix(s, "0", "b") \/ has_prefix(s, "0", "x") \/ has_prefix(s, "0", "X")
    THEN SubSeq(s, 3, Len(s)) ELSE s

\* s encodes a bit-vector for the parser op.
IsEncoding(op, s) ==
    CASE op = "from_binary_string" ->
             IsBinaryEncoding(IF has_prefix(s, "0", "b") THEN Unprefixed(s) ELSE s)
      [] op = "from_hex_string" ->
             IsHexEncoding(IF has_prefix(s, "0", "b") THEN s ELSE Unprefixed(s))
      [] op = "from_string" ->
             IF has_prefix(s, "0", "b") THEN IsBinaryEncoding(Unprefixed(s))
             ELSE IsBinaryEncoding(s) \/ IsHexEncoding(Unprefixed(s))

\* C26: for every input string a parse does not abort, and a string that
\* does not encode a bit-vector is answered with None.
C26_FailedParse ==
    pc = "parsed" =>
        /\ res.out # Panicked
        /\ ~IsEncoding(res.op, arg) => res.out = None

(***************************************************************************)
(* inverse() on matrices of any shape, empty ones included.                *)
(***************************************************************************)
\* Largest numbers of rows and of columns explored.
MaxRows == 2

MaxCols == 3

\* BitMatrix::zeros(r, c) with any bits set: r rows of c bits; no rows at
\* all is the empty matrix.
Matrices == UNION {[1..r -> BitVecs(c)] : r \in 0..MaxRows, c \in 0..MaxCols}

InitAnyMatrix ==
    /\ v = new
    /\ pc = "start"
    /\ arg \in Matrices
    /\ res = Idle
    /\ rng = Idle
    /\ thr = Idle

SpecInverseAny == InitAnyMatrix /\ [][Inverse]_vars

\* C27: inverse() aborts when it is called on an empty or a non-square
\* matrix.
C27_InverseAborts ==
    pc = "inverse" /\ (rows(arg) = 0 \/ rows(arg) # cols(arg)) => res = Panicked

(***************************************************************************)
(* probability_invertible (src/matrix.rs).  An f64 between 0 and 2 is a    *)
(* sequence of Limbs digits to the base LimbBase, the first its units and  *)
(* the others after the point; every f64 the loop meets, and every exact   *)
(* product of two of them, fits.  Arithmetic is exact and then rounded to  *)
(* MANTISSA_DIGITS significant binary digits, ties to even, as IEEE 754    *)
(* does.                                                                   *)
(***************************************************************************)
\* f64::MANTISSA_DIGITS
MANTISSA_DIGITS == 53

\* Binary digits to a limb: few enough for the sum of Limbs products of
\* two limbs to stay a 32-bit integer.
LimbBits == 12

LimbBase == 2^LimbBits

\* The units limb and room after the point for the exact product of two
\* f64 below 2, which has up to 2 * MANTISSA_DIGITS + 2 binary digits there.
Limbs == 1 + div_ceil(2 * MANTISSA_DIGITS + 2, LimbBits)

\* The binary digits are numbered from 0, the most significant of the
\* units limb, to BinaryDigits - 1; digit UnitsDigit is worth 1.
BinaryDigits == LimbBits * Limbs

UnitsDigit == LimbBits - 1

binary_digit(x, q) == (x[q \div LimbBits + 1] \div 2^(LimbBits - 1 - (q % LimbBits))) % 2

\* The number whose only binary digit set is digit q.
only_digit(q) ==
    AsSeq([i \in 1..Limbs |-> IF i = q \div LimbBits + 1
                              THEN 2^(LimbBits - 1 - (q % LimbBits)) ELSE 0], Limbs)

\* 1.0
F64_ONE == only_digit(UnitsDigit)

\* The limbs of the column sums sums, carries taken to the left.
carried(sums) ==
    LET RECURSIVE loop(_)
        loop(st) ==
            IF st[2] < 1 THEN st[1]
            ELSE loop(<<<<(sums[st[2]] + st[3]) % LimbBase>> \o st[1], st[2] - 1,
                        (sums[st[2]] + st[3]) \div LimbBase>>)
    IN  loop(<<<<>>, Limbs, 0>>)

\* a + b, exact.
exact_sum(a, b) == carried([i \in 1..Limbs |-> a[i] + b[i]])

\* a - b for a >= b, exact.
exact_difference(a, b) ==
    LET RECURSIVE loop(_)
        loop(st) ==
            IF st[2] < 1 THEN st[1]
            ELSE loop(<<<<(a[st[2]] - b[st[2]] - st[3]) % LimbBase>> \o st[1], st[2] - 1,
                        IF a[st[2]] - b[st[2]] - st[3] < 0 THEN 1 ELSE 0>>)
    IN  loop(<<<<>>, Limbs, 0>>)

\* a * b, exact: limb i of a times limb j of b counts in limb i + j - 1.
exact_product(a, b) ==
    LET RECURSIVE column(_, _)
        column(k, i) == IF i > k THEN 0 ELSE a[i] * b[k + 1 - i] + column(k, i + 1)
    IN  carried([k \in 1..Limbs |-> column(k, 1)])

\* x rounded to MANTISSA_DIGITS significant digits, ties to even.
rounded(x) ==
    LET first(p) == binary_digit(x, p) = 1 /\ \A j \in 0..(p - 1) : binary_digit(x, j) = 0
        round(p) ==
            LET last == p + MANTISSA_DIGITS - 1
                kept == [i \in 1..Limbs |->
                            IF LimbBits * i - 1 <= last THEN x[i]
                            ELSE IF LimbBits * (i - 1) > last THEN 0
                            ELSE (x[i] \div 2^(LimbBits * i - 1 - last))
                                     * 2^(LimbBits * i - 1 - last)]
                half == binary_digit(x, last + 1) = 1
                more == \E j \in (last + 2)..(BinaryDigits - 1) : binary_digit(x, j) = 1
            IN  IF last >= BinaryDigits - 1 THEN x
                ELSE IF half /\ (more \/ binary_digit(x, last) = 1)
                     THEN exact_sum(kept, only_digit(last))
                ELSE AsSeq(kept, Limbs)
    IN  IF \A j \in 0..(BinaryDigits - 1) : binary_digit(x, j) = 0 THEN x
        ELSE round(CHOOSE p \in 0..(BinaryDigits - 1) : first(p))

\* The f64 operators * and -.
f64_mul(a, b) == rounded(exact_product(a, b))

f64_sub(a, b) == rounded(exact_difference(a, b))

\* 0.5
F64_HALF == only_digit(UnitsDigit + 1)

\* Largest matrix dimension asked about.
MaxDimension == 4

InitProbability ==
    /\ v = new
    /\ pc = "start"
    /\ arg \in 0..MaxDimension
    /\ res = Idle
    /\ rng = Idle
    /\ thr = Idle

\* probability_invertible(n) up to its loop; n = 0 fails the assertion.
ProbabilityInvertible ==
    /\ pc = "start"
    /\ pc' = IF arg > 0 THEN "while" ELSE "panicked"
    /\ res' = IF arg > 0
              THEN [n_prod |-> MANTISSA_DIGITS, result |-> F64_ONE, pow2 |-> F64_ONE]
              ELSE Panicked
    /\ UNCHANGED <<v, arg, rng, thr>>

\* One turn of the while loop.
NextFactor ==
    /\ pc = "while"
    /\ res.n_prod > 0
    /\ res' = [n_prod |-> res.n_prod - 1,
               pow2   |-> f64_mul(res.pow2, F64_HALF),
               result |-> f64_mul(res.result, f64_sub(F64_ONE, f64_mul(res.pow2, F64_HALF)))]
    /\ UNCHANGED <<v, pc, arg, rng, thr>>

ProbabilityReturned ==
    /\ pc = "while"
    /\ res.n_prod = 0
    /\ pc' = "returned"
    /\ res' = [out |-> res.result]
    /\ UNCHANGED <<v, arg, rng, thr>>

NextProbability == ProbabilityInvertible \/ NextFactor \/ ProbabilityReturned

SpecProbability == InitProbability /\ [][NextProbability]_vars

\* The product over k = 1..n of (1 - 2^(-k)), exact.
RECURSIVE ExactProbability(_)
ExactProbability(n) ==
    IF n = 0 THEN F64_ONE
    ELSE exact_product(ExactProbability(n - 1),
                       exact_difference(F64_ONE, only_digit(UnitsDigit + n)))

\* a and b differ by less than 2^(-40): far more than the rounding of the
\* loop's multiplications can add up to.
Close(a, b) ==
    LET less(x, y) == \E i \in 1..Limbs :
                          x[i] < y[i] /\ \A j \in 1..(i - 1) : x[j] = y[j]
        gap == IF less(a, b) THEN exact_difference(b, a) ELSE exact_difference(a, b)
    IN  \A q \in 0..(UnitsDigit + 40) : binary_digit(gap, q) = 0

\* C28: probability_invertible(n) returns the product over k = 1..n of
\* (1 - 2^(-k)) for every n >= 1, up to floating-point rounding.
C28_ProbabilityInvertible ==
    pc = "returned" => Close(res.out, ExactProbability(arg))

(***************************************************************************)
(* Splitting a store in two (src/store.rs): arg is a bit-vector and each   *)
(* action splits it at some index, the one past its end included.          *)
(***************************************************************************)
\* split_at: split_at_into with two new vectors.
split_at(self, at) == split_at_into(self, at)

InitSplit ==
    /\ v = new
    /\ pc = "start"
    /\ arg \in UNION {BitVecs(n) : n \in 0..MaxBits}
    /\ res = Idle
    /\ rng = Idle
    /\ thr = Idle

\* The call panics where one of its assertions fails.
Split(op, at, out) ==
    /\ pc = "start"
    /\ pc' = "split"
    /\ res' = [op |-> op, at |-> at, store |-> arg,
               panicked |-> ~split_at_ok(arg, at),
               out |-> IF split_at_ok(arg, at) THEN out ELSE Panicked]
    /\ UNCHANGED <<v, arg, rng, thr>>

SplitAt == \E at \in 0..(len(arg) + 1) : Split("split_at", at, split_at(arg, at))

SplitAtInto == \E at \in 0..(len(arg) + 1) : Split("split_at_into", at, split_at_into(arg, at))

NextSplit == SplitAt \/ SplitAtInto

SpecSplit == InitSplit /\ [][NextSplit]_vars

\* C29: split_at(at) and split_at_into(at, left, right) succeed for every
\* at with 0 <= at <= len, with left the bits [0, at) and right the bits
\* [at, len) and the store as it was; they panic only when at > len.
C29_SplitAt ==
    pc = "split" =>
        IF res.at <= len(arg)
        THEN /\ ~res.panicked
             /\ Bits(res.out[1]) = SubSeq(Bits(arg), 1, res.at)
             /\ Bits(res.out[2]) = SubSeq(Bits(arg), res.at + 1, len(arg))
             /\ res.store = arg
        ELSE res.panicked

(***************************************************************************)
(* append_unsigned followed by split_off_unsigned (src/vec.rs): arg is the *)
(* vector beforehand; the unsigned type has the width of the storage word  *)
(* or the width WIDE.                                                      *)
(***************************************************************************)
\* split_off_unsigned::<Dst> for a Dst of dst_bits bits: the pair
\* <<self afterwards, the Option returned>>.
split_off_unsigned(self, dst_bits) ==
    LET RECURSIVE pop_words(_)
        pop_words(st) ==
            IF st[3] >= words_needed(dst_bits) \/ is_empty(st[1]) THEN st
            ELSE pop_words(<<split_off_word(st[1])[1],
                             Append(st[2], split_off_word(st[1])[2]), st[3] + 1>>)
        RECURSIVE combine(_)
        combine(st) ==
            IF st[2] < 1 THEN st[1]
            ELSE combine(<<((st[1] * 2^W) % 2^dst_bits) + st[3][st[2]], st[2] - 1, st[3]>>)
        many(popped) == <<popped[1], Some(combine(<<0, Len(popped[2]), popped[2]>>))>>
    IN  IF is_empty(self) THEN <<self, None>>
        ELSE IF words_needed(dst_bits) = 1
             THEN <<split_off_word(self)[1], Some(split_off_word(self)[2])>>
        ELSE many(pop_words(<<self, <<>>, 0>>))

\* Values of the wide type: some that fit a word, some that do not.
WideValues == {0, 1, MAXW, MAXW + 1, 2 * 2^W + 1, ALTERNATING * 2^W, 2^WIDE - 1}

InitSplitOff ==
    /\ v = new
    /\ pc = "start"
    /\ arg \in UNION {BitVecs(n) : n \in 0..MaxBits}
    /\ res = Idle
    /\ rng = Idle
    /\ thr = Idle

\* v.append_unsigned(x); v.split_off_unsigned::<Dst>()
RoundTrip(bits, x) ==
    /\ pc = "start"
    /\ pc' = "split_off"
    /\ res' = [bits     |-> bits,
               x        |-> x,
               appended |-> append_unsigned(arg, x, bits),
               after    |-> split_off_unsigned(append_unsigned(arg, x, bits), bits)[1],
               out      |-> split_off_unsigned(append_unsigned(arg, x, bits), bits)[2]]
    /\ UNCHANGED <<v, arg, rng, thr>>

WordRoundTrip == \E x \in Patterns : RoundTrip(W, x)

WideRoundTrip == \E x \in WideValues : RoundTrip(WIDE, x)

NextSplitOff == WordRoundTrip \/ WideRoundTrip

SpecSplitOff == InitSplitOff /\ [][NextSplitOff]_vars

\* C30: appending x with append_unsigned and then calling
\* split_off_unsigned for the same type returns Some(x) and leaves the
\* vector as it was before, also when x is wider than the storage word.
C30_AppendSplitOff ==
    pc = "split_off" => res.out = Some(res.x) /\ res.after = arg

====
